---------------------------- MODULE Spec2Model ----------------------------
(***************************************************************************)
(* A state-machine model of the road and ground generation code of         *)
(* src/src/lowpoly.js (class LowPolyViewer, lines 40-4198).                 *)
(*                                                                         *)
(* World coordinates are integers (metres); the height y is counted in     *)
(* thousandths of a metre.  An orientation is a yaw of h quarter turns     *)
(* about the Y axis, h in 0..3 (0 faces +z, 1 faces +x).  A sample point   *)
(* of a centerline is the exact rational start + (end - start) * i / steps *)
(* and its cell is Math.round of that rational divided by the cell size    *)
(* (halves round up, as Math.round does).                                  *)
(*                                                                         *)
(* The GLB assets are not part of the repository: the shape of a template  *)
(* (the names and local transforms of its children) is an input, given     *)
(* here by TemplateChildren: straight pieces of 4.5 m and 2 m and          *)
(* quarter-turn curves whose socket lies 3 m and 2 m ahead and to the      *)
(* side in the road pack (placed at scale 2), a straight Road1 of 4 m and  *)
(* a crossing RoadX of 4 m with side sockets 2 m off its axis.             *)
(***************************************************************************)
EXTENDS Integers, Sequences, FiniteSets

(***************************************************************************)
(* Bounds of the model.                                                    *)
(***************************************************************************)
MaxCount == 5
MaxGrid == 4
MaxRuns == 2
MaxChainRuns == 1
MaxWalk == 5
MaxAll == 2
MaxSuspended == 1
MaxReentrant == 2
MaxNet == 3
MaxLen == 5
MaxOrigin == 1
MaxTurns == 8
MaxChildren == 3
MaxCoord == 12
KeyScale == 2
MaxCalls == 3
MaxSpawns == 2
MaxCamera == 1
MaxStuck == 9
MaxPos == 1
MaxViewObjects == 2

(***************************************************************************)
(* Program constants.                                                      *)
(***************************************************************************)
GRID_CELL_SIZE == 2
TILE_SIZE == 10
SEED == 12345
SPINE_LENGTH == 20
BRANCH_LENGTH == 5
MAX_UNDO_STEPS == 50
MAX_SAME_DIR_CURVES == 2
MIN_STRAIGHTS_AFTER_CURVE == 1
maxFailures == 5

(***************************************************************************)
(* Arithmetic helpers.                                                     *)
(***************************************************************************)
Min(a, b) == IF a < b THEN a ELSE b

Max(a, b) == IF a < b THEN b ELSE a

\* Math.floor(p / (q * size)).
FloorDiv(p, q, size) == p \div (q * size)

\* Math.round(p / (q * size)) for integers p, q > 0, size > 0.
RoundDiv(p, q, size) == (2 * p + q * size) \div (2 * q * size)

\* Math.ceil(Math.sqrt(n)) for an integer n >= 0.
CeilSqrt(n) == CHOOSE k \in 0..(n + 1) : k * k >= n /\ (k = 0 \/ (k - 1) * (k - 1) < n)

\* Math.ceil(Math.sqrt(n) / 2) for an integer n >= 0.
CeilHalfSqrt(n) == CHOOSE k \in 0..(n + 1) : 4 * k * k >= n /\ (k = 0 \/ 4 * (k - 1) * (k - 1) < n)

SeqToSet(s) == {s[k] : k \in 1..Len(s)}

\* F applied to the value of e, which is computed once.
Let(e, F(_)) == CHOOSE y \in {F(x) : x \in {e}} : TRUE

(***************************************************************************)
(* 32-bit words, as <<high 16 bits, low 16 bits>>: seededRandom works on   *)
(* 32-bit integers (| 0, >>>, Math.imul), whose products do not fit the    *)
(* model checker's integers.                                               *)
(***************************************************************************)
HALF == 65536

RECURSIVE XorBits(_, _, _)
XorBits(a, b, n) ==
  IF n = 0 THEN 0
  ELSE (((a % 2) + (b % 2)) % 2) + 2 * XorBits(a \div 2, b \div 2, n - 1)

RECURSIVE OrBits(_, _, _)
OrBits(a, b, n) ==
  IF n = 0 THEN 0
  ELSE (IF (a % 2) = 1 \/ (b % 2) = 1 THEN 1 ELSE 0) + 2 * OrBits(a \div 2, b \div 2, n - 1)

Xor32(a, b) == <<XorBits(a[1], b[1], 16), XorBits(a[2], b[2], 16)>>

Or32(a, b) == <<OrBits(a[1], b[1], 16), OrBits(a[2], b[2], 16)>>

\* a >>> k, for 0 < k < 16.
Shr32(a, k) ==
  LET p == 2 ^ k
      q == 2 ^ (16 - k)
  IN  <<a[1] \div p, ((a[1] % p) * q) + (a[2] \div p)>>

\* a + b | 0.
Add32(a, b) ==
  LET lo == a[2] + b[2]
  IN  <<(a[1] + b[1] + (lo \div HALF)) % HALF, lo % HALF>>

\* (x * y) mod 2^16 for 16-bit x, y.
MulLow16(x, y) == (((x % 256) * y) + ((((x \div 256) * y) % 256) * 256)) % HALF

\* Math.imul(a, b): the low 32 bits of the product.
Imul(a, b) ==
  LET p0 == (a[2] % 256) * b[2]
      p1 == (a[2] \div 256) * b[2]
      lo == (p0 % HALF) + ((p1 % 256) * 256)
      hi == (p0 \div HALF) + (p1 \div 256) + (lo \div HALF)
      cross == MulLow16(a[1], b[2]) + MulLow16(a[2], b[1])
  IN  <<(hi + cross) % HALF, lo % HALF>>

\* 0x6D2B79F5, the increment of mulberry32.
MULBERRY_INC == <<27947, 31221>>

\* seedState after one call of seededRandom.
NextSeedState(s) == Add32(s, MULBERRY_INC)

\* The 32-bit value (t ^ t >>> 14) >>> 0 that seededRandom derives from the
\* advanced seedState s.
SeededOutput(s) ==
  LET t1 == Imul(Xor32(s, Shr32(s, 15)), Or32(<<0, 1>>, s))
      t2 == Xor32(Add32(t1, Imul(Xor32(t1, Shr32(t1, 7)), Or32(<<0, 61>>, t1))), t1)
  IN  Xor32(t2, Shr32(t2, 14))

\* ROADX_CHANCE = 0.2 = ROADX_CHANCE_NUM / ROADX_CHANCE_DEN.
ROADX_CHANCE_NUM == 1

ROADX_CHANCE_DEN == 5

\* u / 4294967296 < ROADX_CHANCE, for the 32-bit value u.
BelowRoadXChance(u) ==
  (ROADX_CHANCE_DEN * u[1]) + ((ROADX_CHANCE_DEN * u[2]) \div HALF) < ROADX_CHANCE_NUM * HALF


(***************************************************************************)
(* Templates.  A template is the list of its named children in traversal   *)
(* order, each with its local position (x, z in half metres; the local     *)
(* height is 0) and its local yaw in quarter turns.  The names are         *)
(* lower-cased, as every lookup of the code lower-cases them first.        *)
(***************************************************************************)
RoadTypes == <<"road_long", "road_short", "road_curve_wide", "road_curve_tight">>

\* ROAD_TYPES[key].type
ROAD_TYPES ==
  [road_long |-> "straight", road_short |-> "straight",
   road_curve_wide |-> "curve", road_curve_tight |-> "curve"]

NetTypes == <<"Road1", "RoadX">>

Child(n, cx, cz, cyaw) == [name |-> n, x |-> cx, z |-> cz, yaw |-> cyaw]

TemplateChildren ==
  [road_long        |-> <<Child("mesh", 0, 0, 0), Child("socket_out", 0, 9, 0)>>,
   road_short       |-> <<Child("mesh", 0, 0, 0), Child("socket_out", 0, 4, 0)>>,
   road_curve_wide  |-> <<Child("mesh", 0, 0, 0), Child("socket_out", 6, 6, 1)>>,
   road_curve_tight |-> <<Child("mesh", 0, 0, 0), Child("socket_out", 4, 4, 1)>>,
   Road1            |-> <<Child("mesh", 0, 0, 0), Child("socket_out", 0, 8, 0)>>,
   RoadX            |-> <<Child("mesh", 0, 0, 0), Child("socket_left", 4, 4, 1),
                          Child("socket_right", -4, 4, 3), Child("socket_out", 0, 8, 0)>>]

\* The patterns the code searches for that each node name contains.
NameParts ==
  [mesh         |-> {},
   socket_out   |-> {"socket", "socket_out"},
   socket_left  |-> {"socket", "socket_left"},
   socket_right |-> {"socket", "socket_right"},
   socket_in    |-> {"socket", "socket_in", "in"}]

\* name.toLowerCase(), for the node names of the model.
toLowerCase(name) ==
  CASE name = "Socket_Out" -> "socket_out"
    [] name = "SOCKET_LEFT" -> "socket_left"
    [] OTHER -> name

\* name.includes(pattern), for a lower-case name.
Includes(name, pattern) == pattern \in NameParts[name]

\* The index of the last element of the sequence ch that satisfies Test, or 0:
\* traverse() visits every node and each match overwrites the result.
LastMatch(ch, Test(_)) ==
  LET hits == {k \in 1..Len(ch) : Test(ch[k])}
  IN  IF hits = {} THEN 0 ELSE CHOOSE k \in hits : \A m \in hits : m <= k

\* The traversal of findSocketOut over the children ch: the index of the
\* child it returns, 0 for null.
SocketOutOf(ch) ==
  LET Test(c) == Includes(toLowerCase(c.name), "socket_out")
                   \/ (Includes(toLowerCase(c.name), "socket")
                         /\ ~Includes(toLowerCase(c.name), "socket_in"))
  IN  LastMatch(ch, Test)

\* findSocketOut(model): the index of the child it returns, 0 for null.
findSocketOut(type) == SocketOutOf(TemplateChildren[type])

\* The traversals of findSocket of spawnSpineAndBranchSystem3 over the
\* children ch: the exact name, else a name containing socketName; 0 for null.
SocketOf(ch, socketName) ==
  LET Exact(c) == toLowerCase(c.name) = toLowerCase(socketName)
      Partial(c) == Includes(toLowerCase(c.name), toLowerCase(socketName))
      e == LastMatch(ch, Exact)
  IN  IF e # 0 THEN e ELSE LastMatch(ch, Partial)

\* findSocket(model, socketName).
findSocket(type, socketName) == SocketOf(TemplateChildren[type], socketName)

\* The socket type findAllSockets gives a node, "" when it is no socket.
SocketRole(name) ==
  IF Includes(name, "socket_out") THEN "out"
  ELSE IF Includes(name, "socket_right") THEN "right"
  ELSE IF Includes(name, "socket_left") THEN "left"
  ELSE IF Includes(name, "socket") /\ ~Includes(name, "in") THEN "out"
  ELSE ""

\* findAllSockets(model): the indices of the socket children, in traversal order.
findAllSockets(type) ==
  SelectSeq([k \in 1..Len(TemplateChildren[type]) |-> k],
            LAMBDA k : SocketRole(TemplateChildren[type][k].name) # "")

(***************************************************************************)
(* Transforms.                                                             *)
(***************************************************************************)
\* A rotation of h quarter turns about Y applied to the vector (vx, vz).
Rot(h, vx, vz) ==
  CASE h = 0 -> <<vx, vz>>
    [] h = 1 -> <<vz, -vx>>
    [] h = 2 -> <<-vx, -vz>>
    [] h = 3 -> <<-vz, vx>>

\* A placed clone: position, yaw, uniform scale, and whether scale.x is negated;
\* chain and run say which chain of which invocation cloned it.
Piece(pid, ptype, px, py, pz, ph, pscale, pmirror, pchain, prun) ==
  [id |-> pid, type |-> ptype, x |-> px, y |-> py, z |-> pz, h |-> ph,
   scale |-> pscale, mirror |-> pmirror, chain |-> pchain, run |-> prun]

\* getWorldPosition and getWorldQuaternion of child k of a piece.
SocketWorld(piece, k) ==
  LET c == TemplateChildren[piece.type][k]
      lx == ((IF piece.mirror THEN -1 ELSE 1) * piece.scale * c.x) \div 2
      lz == (piece.scale * c.z) \div 2
      v == Rot(piece.h, lx, lz)
      yaw == IF piece.mirror THEN (4 - c.yaw) % 4 ELSE c.yaw
  IN  [x |-> piece.x + v[1], y |-> piece.y, z |-> piece.z + v[2], h |-> (piece.h + yaw) % 4]

(***************************************************************************)
(* Cells and centerline sampling.                                          *)
(***************************************************************************)
\* cellKey(px / q, pz / q)
cellKey(px, pz, q) == <<RoundDiv(px, q, GRID_CELL_SIZE), RoundDiv(pz, q, GRID_CELL_SIZE)>>

\* getGridKey(px / q, pz / q), and the gridX, gridZ of sampleRoadWorldGridCells.
getGridKey(px, pz, q) == <<RoundDiv(px, q, TILE_SIZE), RoundDiv(pz, q, TILE_SIZE)>>

\* The squared distance from the origin of a piece to the point e.
Dist2(piece, e) ==
  ((e.x - piece.x) * (e.x - piece.x)) + ((e.z - piece.z) * (e.z - piece.z))

\* a + (b - a) * (j / n), times n.
Along(a, b, j, n) == (a * n) + ((b - a) * j)

\* The sample points of sampleRoadCells on the segment from start to end:
\* point i of 0..steps is start + (end - start) * (i / steps); x and z are kept
\* times q = steps.
SegmentPoints(start, end) ==
  Let(Max(1, CeilSqrt(Dist2(start, end))), LAMBDA steps :
    [j \in 1..(steps + 1) |->
       [x |-> Along(start.x, end.x, j - 1, steps),
        z |-> Along(start.z, end.z, j - 1, steps), q |-> steps]])

\* The loop of sampleRoadCells: the cell key of every sample point.
SegmentCells(start, end) ==
  Let(SegmentPoints(start, end), LAMBDA pts :
    [j \in 1..Len(pts) |-> cellKey(pts[j].x, pts[j].z, pts[j].q)])

\* sampleRoadCells(piece): the fine cell of a sample every metre from the
\* origin to the out socket.
sampleRoadCells(piece) ==
  Let(findSocketOut(piece.type), LAMBDA k :
    IF k = 0 THEN <<>>
    ELSE Let(SocketWorld(piece, k), LAMBDA e : SegmentCells(piece, e)))

\* sampleRoadWorldGridCells(piece): the coarse cells of a sample every two
\* metres, without duplicates.
sampleRoadWorldGridCells(piece) ==
  Let(findSocketOut(piece.type), LAMBDA k :
    IF k = 0 THEN {}
    ELSE Let(SocketWorld(piece, k), LAMBDA e :
           Let(Max(1, CeilHalfSqrt(Dist2(piece, e))), LAMBDA steps :
             {getGridKey(Along(piece.x, e.x, j, steps),
                         Along(piece.z, e.z, j, steps), steps) : j \in 0..steps})))

(***************************************************************************)
(* State.                                                                  *)
(*   Fields of the viewer: roadTemplates (the keys of this.roadTemplates), *)
(*   roadPieces, occupiedCells, groundTiles, worldGrid, and scene (the ids *)
(*   of the clones and tiles that are children of this.scene).             *)
(*   The running generator: pc (where it stands), gen (which generator     *)
(*   started the current or the last run), and its locals.                 *)
(***************************************************************************)
VARIABLES roadTemplates, roadPieces, occupiedCells, groundTiles, worldGrid, scene,
          pc, gen, count, templates, i, cur, seedState, branches, bi, bj,
          lastCurveDir, sameDirCount, straightsSinceCurve, recentCellSets,
          openSockets, placed, attempts, consecutiveFailures, tried, result,
          lastGrid, again, firstRun, runs, calls, probe, utilityPoles,
          selectableObjects, selectedObject, undoHistory, savedScenes, currentSceneName,
          currentCameraViews, activeCameraView, cameraViewObjects, camera

fields == <<roadTemplates, roadPieces, occupiedCells, groundTiles, worldGrid, scene>>

spineLocals == <<seedState, branches, bi, bj>>

walkLocals == <<lastCurveDir, sameDirCount, straightsSinceCurve, recentCellSets>>

netLocals == <<openSockets, placed, attempts>>

roadLocals == <<consecutiveFailures>>

vars == <<roadTemplates, roadPieces, occupiedCells, groundTiles, worldGrid, scene,
          pc, gen, count, templates, i, cur, seedState, branches, bi, bj,
          lastCurveDir, sameDirCount, straightsSinceCurve, recentCellSets,
          openSockets, placed, attempts, consecutiveFailures, tried, result,
          lastGrid, again, firstRun, runs, calls, probe, utilityPoles,
          selectableObjects, selectedObject, undoHistory, savedScenes, currentSceneName,
          currentCameraViews, activeCameraView, cameraViewObjects, camera>>

\* History, read by no action: lastGrid is the gridSize of the last call of
\* generateGroundGrid since the last start of a generator (-1: none), again says
\* that the call before it was a call with the same gridSize; firstRun keeps,
\* per set of loaded templates, what the first completed run of system 3
\* committed; runs counts the generator runs started so far.
\* calls: the invocations of the generators that are alive: running is the
\* number of the invocation whose code runs (or ran last), suspended holds the
\* invocations that wait at an await while other code runs.
\* probe: a direct call of one helper function: its name, its arguments and,
\* once it has returned, its result.
\* utilityPoles: this.utilityPoles, the poles and cables of spawnUtilityPoles
\* (empty while the field is undefined).
history == <<lastGrid, again, firstRun, runs>>

\* The fields of scene composition.  selectableObjects holds the objects that
\* can be selected, each with its identity, its name, its spawnedType ("" when
\* it has none) and its position; selectedObject is the identity of the
\* selected object, 0 for null.  A captured scene state holds a reference to
\* the object of camera views it was captured with, not a copy:
\* cameraViewObjects maps each such object, by its reference, to the views it
\* holds now, and currentCameraViews is the reference this.currentCameraViews
\* holds.  camera is the state of the camera (position, target and zoom as
\* one number).
composition == <<selectableObjects, selectedObject, undoHistory, savedScenes, currentSceneName,
                 currentCameraViews, activeCameraView, cameraViewObjects, camera>>

\* A camera view that holds null.
NoCamera == -1

\* No helper function is called directly.
NoProbe == [fn |-> "none"]

\* new THREE.Vector3(x, 0, z) with the identity quaternion.
Transform(tx, ty, tz, th) == [x |-> tx, y |-> ty, z |-> tz, h |-> th]

\* The ids of the objects the program holds a reference to.
LiveIds(sc, pieces, tiles) ==
  sc \cup {pieces[k].id : k \in 1..Len(pieces)} \cup {tiles[k].id : k \in 1..Len(tiles)}

\* The identity of a newly created object: any id no live object has.
FreshId(sc, pieces, tiles) ==
  Let(LiveIds(sc, pieces, tiles), LAMBDA live :
    CHOOSE n \in 1..(Cardinality(live) + 1) :
      n \notin live /\ \A m \in 1..(n - 1) : m \in live)

\* this.roadPieces.forEach(p => this.scene.remove(p))
SceneWithoutRoadPieces == scene \ {roadPieces[k].id : k \in 1..Len(roadPieces)}

\* The viewer after its constructor, no generator called yet.
ConstructedRoads ==
  /\ roadTemplates = {}
  /\ roadPieces = <<>>
  /\ occupiedCells = {}
  /\ groundTiles = <<>>
  /\ worldGrid = <<>>
  /\ scene = {}
  /\ pc = "idle"
  /\ gen = "none"
  /\ count = 0
  /\ templates = {}
  /\ i = 0
  /\ cur = Transform(0, 0, 0, 0)
  /\ seedState = <<0, 0>>
  /\ branches = <<>>
  /\ bi = 0
  /\ bj = 0
  /\ lastCurveDir = 0
  /\ sameDirCount = 0
  /\ straightsSinceCurve = 0
  /\ recentCellSets = <<>>
  /\ openSockets = <<>>
  /\ placed = 0
  /\ attempts = 0
  /\ consecutiveFailures = 0
  /\ tried = {}
  /\ result = "none"
  /\ lastGrid = -1
  /\ again = FALSE
  /\ firstRun = <<>>
  /\ runs = 0
  /\ calls = [running |-> 0, suspended |-> <<>>]
  /\ utilityPoles = <<>>

\* The state after construction.
Constructed ==
  /\ ConstructedRoads
  /\ selectableObjects = <<>>
  /\ selectedObject = 0
  /\ undoHistory = <<>>
  /\ savedScenes = <<>>
  /\ currentSceneName = ""
  /\ currentCameraViews = 1
  /\ activeCameraView = "Default"
  /\ cameraViewObjects = <<<<[name |-> "Default", cam |-> NoCamera]>>>>
  /\ camera = 0

Init == Constructed /\ probe = NoProbe

\* A generator returns: its locals no longer exist (they take their initial
\* values again).
ReturnLocals ==
  /\ count' = 0
  /\ templates' = {}
  /\ i' = 0
  /\ cur' = Transform(0, 0, 0, 0)
  /\ branches' = <<>>
  /\ bi' = 0
  /\ bj' = 0
  /\ lastCurveDir' = 0
  /\ sameDirCount' = 0
  /\ straightsSinceCurve' = 0
  /\ recentCellSets' = <<>>
  /\ openSockets' = <<>>
  /\ placed' = 0
  /\ attempts' = 0
  /\ consecutiveFailures' = 0
  /\ tried' = {}
  /\ result' = "none"

(***************************************************************************)
(* Ground tiles.                                                           *)
(***************************************************************************)
\* The state the ground functions work on.
Ground(sc, tiles, grid) == [scene |-> sc, groundTiles |-> tiles, worldGrid |-> grid]

\* A removeTileAt that leaves groundTiles alone.
removeTileAtKeepingList(g, key) ==
  IF key \in DOMAIN g.worldGrid
  THEN [scene |-> g.scene \ {g.worldGrid[key].mesh},
        worldGrid |-> [c \in DOMAIN g.worldGrid \ {key} |-> g.worldGrid[c]],
        groundTiles |-> g.groundTiles]
  ELSE g

\* removeTileAt(gridX, gridZ) on the ground state g: the removed entry's mesh
\* leaves the scene, worldGrid and groundTiles.
removeTileAt(g, key) ==
  IF key \in DOMAIN g.worldGrid
  THEN [scene |-> g.scene \ {g.worldGrid[key].mesh},
        worldGrid |-> [c \in DOMAIN g.worldGrid \ {key} |-> g.worldGrid[c]],
        groundTiles |->
          \* indexOf(entry.mesh), then splice(idx, 1) when idx > -1
          Let({k \in 1..Len(g.groundTiles) : g.groundTiles[k].id = g.worldGrid[key].mesh},
              LAMBDA idx :
                IF idx = {} THEN g.groundTiles
                ELSE Let(CHOOSE k \in idx : \A m \in idx : k <= m, LAMBDA f :
                       SubSeq(g.groundTiles, 1, f - 1)
                         \o SubSeq(g.groundTiles, f + 1, Len(g.groundTiles))))]
  ELSE g

\* spawnGrassTile(gridX, gridZ) on the ground state g; pieces are the road
\* pieces alive at the call (they keep their ids).
spawnGrassTile(g, key, pieces) ==
  IF key \in DOMAIN g.worldGrid THEN g
  ELSE Let(FreshId(g.scene, pieces, g.groundTiles), LAMBDA id :
         [scene |-> g.scene \cup {id},
          groundTiles |-> Append(g.groundTiles, [id |-> id, gx |-> key[1], gz |-> key[2]]),
          worldGrid |-> [c \in DOMAIN g.worldGrid \cup {key} |->
                           IF c = key THEN [type |-> "grass", mesh |-> id]
                           ELSE g.worldGrid[c]]])

\* The cells generateGroundGrid(gridSize) visits, in the order of its loops.
GridCells(gridSize) ==
  LET halfGrid == gridSize \div 2
      w == 2 * halfGrid
  IN  [k \in 1..(w * w) |-> <<((k - 1) \div w) - halfGrid, ((k - 1) % w) - halfGrid>>]

RECURSIVE SpawnAll(_, _, _, _)
SpawnAll(g, cells, k, pieces) ==
  IF k > Len(cells) THEN g
  ELSE Let(spawnGrassTile(g, cells[k], pieces), LAMBDA g1 :
         SpawnAll(g1, cells, k + 1, pieces))

\* generateGroundGrid(gridSize) without the line that empties groundTiles.
generateGroundGridKeepingTiles(gridSize) ==
  /\ UNCHANGED <<calls, probe, utilityPoles, composition>>
  /\ pc = "idle"
  /\ \E cleared \in {Ground(scene \ {groundTiles[k].id : k \in 1..Len(groundTiles)},
                              groundTiles, <<>>)} :
       \E cells \in {GridCells(gridSize)} :
         \E g \in {SpawnAll(cleared, cells, 1, roadPieces)} :
           /\ scene' = g.scene
           /\ groundTiles' = g.groundTiles
           /\ worldGrid' = g.worldGrid
  /\ lastGrid' = gridSize
  /\ again' = (lastGrid = gridSize)
  /\ UNCHANGED <<roadTemplates, roadPieces, occupiedCells, pc, gen, count, templates, i, cur,
                 spineLocals, walkLocals, netLocals, roadLocals, tried, result, firstRun, runs>>

\* generateGroundGrid(gridSize): remove every tile of groundTiles from the
\* scene, empty groundTiles and worldGrid, then spawn the centred grid.
generateGroundGrid(gridSize) ==
  /\ UNCHANGED <<calls, probe, utilityPoles, composition>>
  /\ pc = "idle"
  /\ \E cleared \in {Ground(scene \ {groundTiles[k].id : k \in 1..Len(groundTiles)},
                              <<>>, <<>>)} :
       \E cells \in {GridCells(gridSize)} :
         \E g \in {SpawnAll(cleared, cells, 1, roadPieces)} :
           /\ scene' = g.scene
           /\ groundTiles' = g.groundTiles
           /\ worldGrid' = g.worldGrid
  /\ lastGrid' = gridSize
  /\ again' = (lastGrid = gridSize)
  /\ UNCHANGED <<roadTemplates, roadPieces, occupiedCells, pc, gen, count, templates, i, cur,
                 spineLocals, walkLocals, netLocals, roadLocals, tried, result, firstRun, runs>>


(***************************************************************************)
(* Utility poles and cables.  Lengths are in tenths of a metre; a point of *)
(* a cable keeps z times segments and y times segments * segments.         *)
(***************************************************************************)
poleSpacing == 200
roadLength == 800
sideOffset == 35
cableHeight == 76
sagAmount == 12
segments == 24
cableOffsets == <<-7, 0, 7>>

\* The loop for (z = 0; z >= -roadLength; z -= poleSpacing).
polePositionsToTheEnd ==
  [k \in 1..((roadLength \div poleSpacing) + 1) |-> [x |-> sideOffset, z |-> -((k - 1) * poleSpacing)]]

\* The loop for (z = 0; z > -roadLength; z -= poleSpacing).
polePositions ==
  [k \in 1..((roadLength + poleSpacing - 1) \div poleSpacing) |->
     [x |-> sideOffset, z |-> -((k - 1) * poleSpacing)]]

\* The points of one cable of createSaggingCables(x1, z1, x2, z2), j = 0..segments.
CablePoints(x1, z1, z2, offset) ==
  [n \in 1..(segments + 1) |->
     [x |-> x1 + offset,
      z |-> (z1 * segments) + ((z2 - z1) * (n - 1)),
      y |-> (cableHeight * segments * segments)
              - (sagAmount * 4 * (n - 1) * (segments - (n - 1)))]]

\* The scene and utilityPoles a step of spawnUtilityPoles works on.
Poles(sc, up) == [scene |-> sc, utilityPoles |-> up]

RECURSIVE createSaggingCables(_, _, _, _)
\* createSaggingCables(x1, z1, x2, z2) from cable k on: each cable is added to
\* the scene and pushed to utilityPoles.
createSaggingCables(u, a, b, k) ==
  IF k > Len(cableOffsets) THEN u
  ELSE Let(FreshId(u.scene, roadPieces, groundTiles \o u.utilityPoles), LAMBDA id :
         createSaggingCables(
           Poles(u.scene \cup {id},
                 Append(u.utilityPoles,
                        [id |-> id, kind |-> "cable",
                         points |-> CablePoints(a.x, a.z, b.z, cableOffsets[k])])),
           a, b, k + 1))

\* createUtilityPole(x, z) and the push of the pole.
createUtilityPole(u, pos) ==
  Let(FreshId(u.scene, roadPieces, groundTiles \o u.utilityPoles), LAMBDA id :
    Poles(u.scene \cup {id},
          Append(u.utilityPoles, [id |-> id, kind |-> "pole", x |-> pos.x, z |-> pos.z])))

RECURSIVE SpawnEachPole(_, _, _)
\* polePositions.forEach from index k on.
SpawnEachPole(u, positions, k) ==
  IF k > Len(positions) THEN u
  ELSE Let(createUtilityPole(u, positions[k]), LAMBDA u1 :
         SpawnEachPole(IF k < Len(positions)
                       THEN createSaggingCables(u1, positions[k], positions[k + 1], 1)
                       ELSE u1,
                       positions, k + 1))

\* spawnUtilityPoles(): the old poles and cables leave the scene, then the
\* poles are spawned with the cables between them.
spawnUtilityPoles ==
  /\ pc = "idle"
  /\ \E u \in {SpawnEachPole(
                  Poles(scene \ {utilityPoles[k].id : k \in 1..Len(utilityPoles)}, <<>>),
                  polePositions, 1)} :
       /\ scene' = u.scene
       /\ utilityPoles' = u.utilityPoles
  /\ UNCHANGED <<roadTemplates, roadPieces, occupiedCells, groundTiles, worldGrid, pc, gen,
                 count, templates, i, cur, spineLocals, walkLocals, netLocals, roadLocals,
                 tried, result, history, calls, probe, composition>>

(***************************************************************************)
(* SYSTEM 3: spawnSpineAndBranchSystem3.                                   *)
(***************************************************************************)
\* The first lines with a seedState that outlives the call and is not set
\* again.
S3StartCarrying ==
  /\ calls' = [calls EXCEPT !.running = runs + 1]
  /\ UNCHANGED <<probe, utilityPoles, composition>>
  /\ pc = "idle"
  /\ scene' = SceneWithoutRoadPieces
  /\ roadPieces' = <<>>
  /\ pc' = "s3_load"
  /\ gen' = "system3"
  /\ lastGrid' = -1
  /\ again' = FALSE
  /\ result' = "none"
  /\ UNCHANGED <<roadTemplates, occupiedCells, groundTiles, worldGrid, count, templates, i, cur,
                 spineLocals, walkLocals, netLocals, roadLocals, tried, firstRun>>
  /\ runs' = runs + 1

\* The first lines, up to the first await: the road pieces leave the scene,
\* roadPieces is emptied and seedState is set to SEED.
S3Start ==
  /\ calls' = [calls EXCEPT !.running = runs + 1]
  /\ UNCHANGED <<probe, utilityPoles, composition>>
  /\ pc = "idle"
  /\ scene' = SceneWithoutRoadPieces
  /\ roadPieces' = <<>>
  /\ seedState' = <<0, SEED>>
  /\ pc' = "s3_load"
  /\ gen' = "system3"
  /\ lastGrid' = -1
  /\ again' = FALSE
  /\ result' = "none"
  /\ UNCHANGED <<roadTemplates, occupiedCells, groundTiles, worldGrid, count, templates, i, cur,
                 branches, bi, bj, walkLocals, netLocals, roadLocals, tried, firstRun>>
  /\ runs' = runs + 1

\* The template loads: each of Road1, RoadX either loads or fails (the
\* failure is caught and logged).  Then the locals of the spine loop.
S3Load(loaded) ==
  /\ UNCHANGED <<calls, probe, utilityPoles, composition>>
  /\ pc = "s3_load"
  /\ templates' = loaded
  /\ branches' = <<>>
  /\ cur' = Transform(0, 0, 0, 0)
  /\ i' = 0
  /\ bi' = 0
  /\ bj' = 0
  /\ pc' = "s3_spine"
  /\ UNCHANGED <<fields, gen, count, seedState, walkLocals, netLocals, roadLocals, tried,
                 result, history>>

\* spawnPiece(pieceType, targetPos, targetQuat) of system 3, for a loaded type.
spawnPiece3(pieceType, target, chain) ==
  Piece(FreshId(scene, roadPieces, groundTiles), pieceType,
        target.x, target.y, target.z, target.h, 1, FALSE, chain, calls.running)

\* getSocketTransform(piece, socketName) of system 3; <<>> for null.
getSocketTransform3(piece, socketName) ==
  LET k == findSocket(piece.type, socketName)
  IN  IF k = 0 THEN <<>> ELSE SocketWorld(piece, k)

\* The branch entries of an intersection that queues its left branch only.
QueuedLeftBranch(piece) ==
  LET l == getSocketTransform3(piece, "socket_left")
  IN  IF l = <<>> THEN <<>> ELSE <<[t |-> l, side |-> "left", length |-> BRANCH_LENGTH]>>

\* The branch entries an intersection piece queues: left, then right.
QueuedBranches(piece) ==
  LET l == getSocketTransform3(piece, "socket_left")
      r == getSocketTransform3(piece, "socket_right")
  IN  (IF l = <<>> THEN <<>> ELSE <<[t |-> l, side |-> "left", length |-> BRANCH_LENGTH]>>)
        \o (IF r = <<>> THEN <<>> ELSE <<[t |-> r, side |-> "right", length |-> BRANCH_LENGTH]>>)

\* Leaving the spine loop: the branch loops start at the first queued branch.
EnterBranches(bs) ==
  /\ pc' = "s3_branch"
  /\ bi' = 1
  /\ bj' = 0
  /\ cur' = IF Len(bs) >= 1 THEN bs[1].t ELSE cur

\* The iteration of the spine loop with a draw at the last position too.
S3SpineStepDrawingAtEnd ==
  /\ UNCHANGED <<calls, probe, utilityPoles, composition>>
  /\ pc = "s3_spine"
  /\ LET draws == i > 0
         drawn == NextSeedState(seedState)
         useRoadX == draws /\ BelowRoadXChance(SeededOutput(drawn))
         pieceType == IF useRoadX THEN "RoadX" ELSE "Road1"
         piece == spawnPiece3(pieceType, cur, 0)
         next == getSocketTransform3(piece, "socket_out")
     IN  /\ seedState' = IF draws THEN drawn ELSE seedState
         /\ IF pieceType \notin templates
            THEN \* spawnPiece returned null: break
                 /\ EnterBranches(branches)
                 /\ UNCHANGED <<roadPieces, scene, branches, i>>
            ELSE /\ roadPieces' = Append(roadPieces, piece)
                 /\ scene' = scene \cup {piece.id}
                 /\ branches' = IF useRoadX THEN branches \o QueuedBranches(piece)
                                ELSE branches
                 /\ IF next # <<>> /\ i + 1 < SPINE_LENGTH
                    THEN /\ cur' = next
                         /\ i' = i + 1
                         /\ UNCHANGED <<pc, bi, bj>>
                    ELSE /\ i' = IF next # <<>> THEN i + 1 ELSE i
                         /\ EnterBranches(branches')
  /\ UNCHANGED <<roadTemplates, occupiedCells, groundTiles, worldGrid, gen, count, templates,
                 walkLocals, netLocals, roadLocals, tried, result, history>>

\* One iteration of the main spine loop.
S3SpineStep ==
  /\ UNCHANGED <<calls, probe, utilityPoles, composition>>
  /\ pc = "s3_spine"
  /\ LET draws == i > 0 /\ i < SPINE_LENGTH - 1
         drawn == NextSeedState(seedState)
         useRoadX == draws /\ BelowRoadXChance(SeededOutput(drawn))
         pieceType == IF useRoadX THEN "RoadX" ELSE "Road1"
         piece == spawnPiece3(pieceType, cur, 0)
         next == getSocketTransform3(piece, "socket_out")
     IN  /\ seedState' = IF draws THEN drawn ELSE seedState
         /\ IF pieceType \notin templates
            THEN \* spawnPiece returned null: break
                 /\ EnterBranches(branches)
                 /\ UNCHANGED <<roadPieces, scene, branches, i>>
            ELSE /\ roadPieces' = Append(roadPieces, piece)
                 /\ scene' = scene \cup {piece.id}
                 /\ branches' = IF useRoadX THEN branches \o QueuedBranches(piece)
                                ELSE branches
                 /\ IF next # <<>> /\ i + 1 < SPINE_LENGTH
                    THEN /\ cur' = next
                         /\ i' = i + 1
                         /\ UNCHANGED <<pc, bi, bj>>
                    ELSE /\ i' = IF next # <<>> THEN i + 1 ELSE i
                         /\ EnterBranches(branches')
  /\ UNCHANGED <<roadTemplates, occupiedCells, groundTiles, worldGrid, gen, count, templates,
                 walkLocals, netLocals, roadLocals, tried, result, history>>

\* The branch loops: the next branch, or the end of the function.
NextBranch ==
  /\ bi' = bi + 1
  /\ bj' = 0
  /\ cur' = IF bi + 1 <= Len(branches) THEN branches[bi + 1].t ELSE cur

\* One iteration of the inner loop of the branch loops.
S3BranchStep ==
  /\ UNCHANGED <<calls, probe, utilityPoles, composition>>
  /\ pc = "s3_branch"
  /\ bi <= Len(branches)
  /\ LET piece == spawnPiece3("Road1", cur, bi)
         next == getSocketTransform3(piece, "socket_out")
     IN  IF "Road1" \notin templates
         THEN /\ NextBranch
              /\ UNCHANGED <<roadPieces, scene>>
         ELSE /\ roadPieces' = Append(roadPieces, piece)
              /\ scene' = scene \cup {piece.id}
              /\ IF next # <<>> /\ bj + 1 < branches[bi].length
                 THEN /\ cur' = next
                      /\ bj' = bj + 1
                      /\ bi' = bi
                 ELSE NextBranch
  /\ UNCHANGED <<roadTemplates, occupiedCells, groundTiles, worldGrid, pc, gen, count,
                 templates, i, seedState, branches, walkLocals, netLocals, roadLocals,
                 tried, result, history>>

\* The committed pieces as (pieceType, position, orientation) tuples.
Placements(pieces) ==
  [k \in 1..Len(pieces) |->
     <<pieces[k].type, pieces[k].x, pieces[k].y, pieces[k].z, pieces[k].h>>]

\* All branches are built: the function returns and its locals are gone
\* (seedState keeps its last value: nothing reads it before S3Start sets it).
S3Finish ==
  /\ UNCHANGED <<calls, probe, utilityPoles, composition>>
  /\ pc = "s3_branch"
  /\ bi > Len(branches)
  /\ pc' = "idle"
  /\ ReturnLocals
  /\ firstRun' = IF templates \in DOMAIN firstRun THEN firstRun
                 ELSE [t \in DOMAIN firstRun \cup {templates} |->
                         IF t = templates
                         THEN [placements |-> Placements(roadPieces),
                               branches |-> Len(branches)]
                         ELSE firstRun[t]]
  /\ UNCHANGED <<fields, gen, seedState, lastGrid, again, runs>>

(***************************************************************************)
(* loadRoadTemplates, trySpawnRoadPiece and generateRoad.                  *)
(***************************************************************************)
\* loadRoadTemplates(): every road type whose load succeeds is stored in
\* this.roadTemplates (loadRoadTemplate returns null on a failed load).
loadRoadTemplates(loaded) ==
  /\ UNCHANGED <<calls, probe, utilityPoles, composition>>
  /\ pc = "idle"
  /\ roadTemplates' = roadTemplates \cup loaded
  /\ UNCHANGED <<roadPieces, occupiedCells, groundTiles, worldGrid, scene, pc, gen, count,
                 templates, i, cur, spineLocals, walkLocals, netLocals, roadLocals, tried,
                 result, history>>

\* The union of sampleRoadCells of the last Math.min(2, length) road pieces.
RecentCells(pieces) ==
  UNION {SeqToSet(sampleRoadCells(pieces[k])) :
           k \in (Len(pieces) - Min(2, Len(pieces)) + 1)..Len(pieces)}

\* A collision test that looks at the first sampled cell only.
hasRoadCollisionAtOrigin(cells, occupied, recentCells) ==
  Len(cells) > 0 /\ cells[1] \in occupied /\ cells[1] \notin recentCells

\* The collision test of trySpawnRoadPiece on the sampled cells.
hasRoadCollision(cells, occupied, recentCells) ==
  Let(recentCells, LAMBDA recent :
    \E k \in 1..Len(cells) : cells[k] \in occupied /\ cells[k] \notin recent)

RECURSIVE RemoveGrass(_, _)
\* worldCells.forEach: every sampled coarse cell that holds a grass entry loses it.
RemoveGrass(g, keys) ==
  IF keys = {} THEN g
  ELSE Let(CHOOSE c \in keys : TRUE, LAMBDA key :
         Let(IF key \in DOMAIN g.worldGrid /\ g.worldGrid[key].type = "grass"
             THEN removeTileAt(g, key) ELSE g, LAMBDA g1 :
           RemoveGrass(g1, keys \ {key})))

\* The height, in thousandths, trySpawnRoadPiece adds to an accepted piece.
Y_OFFSET == 1

\* A rejection that leaves the test instance in the scene.
RejectedInScene ==
  [piece |-> <<>>, scene |-> scene \cup {FreshId(scene, roadPieces, groundTiles)},
   groundTiles |-> groundTiles, worldGrid |-> worldGrid,
   occupiedCells |-> occupiedCells, roadPieces |-> roadPieces]

\* What trySpawnRoadPiece returns and leaves when it rejects: null, and the
\* fields as they were (a test instance it added to the scene is removed).
Rejected ==
  [piece |-> <<>>, scene |-> scene, groundTiles |-> groundTiles, worldGrid |-> worldGrid,
   occupiedCells |-> occupiedCells, roadPieces |-> roadPieces]

\* An acceptance that replaces occupiedCells by the cells of the piece.
AcceptedReplacing(testInstance, cells) ==
  Let([testInstance EXCEPT !.y = @ + Y_OFFSET], LAMBDA piece :
    [piece |-> piece, scene |-> scene \cup {testInstance.id}, groundTiles |-> groundTiles,
     worldGrid |-> worldGrid,
     occupiedCells |-> SeqToSet(cells),
     roadPieces |-> Append(roadPieces, piece)])

\* What trySpawnRoadPiece returns and leaves when it accepts testInstance, whose
\* sampled cells are cells: the grass under it is removed, the cells are
\* occupied, the piece is pushed and raised by Y_OFFSET.
Accepted(testInstance, cells) ==
  Let(RemoveGrass(Ground(scene \cup {testInstance.id}, groundTiles, worldGrid),
                  sampleRoadWorldGridCells(testInstance)), LAMBDA g :
    Let([testInstance EXCEPT !.y = @ + Y_OFFSET], LAMBDA piece :
      [piece |-> piece, scene |-> g.scene, groundTiles |-> g.groundTiles,
       worldGrid |-> g.worldGrid,
       occupiedCells |-> occupiedCells \cup SeqToSet(cells),
       roadPieces |-> Append(roadPieces, piece)]))

\* trySpawnRoadPiece(pieceName, position, quaternion): the returned piece
\* (<<>> for null) and the fields as the call leaves them.
trySpawnRoadPiece(pieceName, target) ==
  IF pieceName \notin roadTemplates THEN Rejected
  ELSE Let(Piece(FreshId(scene, roadPieces, groundTiles), pieceName,
                 target.x, target.y, target.z, target.h, 2, FALSE, 0,
                 calls.running), LAMBDA testInstance :
         Let(sampleRoadCells(testInstance), LAMBDA cells :
           IF hasRoadCollision(cells, occupiedCells, RecentCells(roadPieces))
           THEN Rejected
           ELSE Accepted(testInstance, cells)))

\* A socket transform read from the origin of the piece.
getSocketTransformOfOrigin(piece) ==
  IF findSocketOut(piece.type) = 0 THEN <<>>
  ELSE Transform(piece.x, piece.y, piece.z, piece.h)

\* getSocketTransform(piece): <<>> for null.
getSocketTransform(piece) ==
  LET k == findSocketOut(piece.type)
  IN  IF k = 0 THEN <<>> ELSE SocketWorld(piece, k)

\* pieceOptions of one iteration of generateRoad.
pieceOptions ==
  IF consecutiveFailures > 0 THEN {"road_long", "road_short"}
  ELSE {"road_long", "road_short", "road_curve_wide", "road_curve_tight"}

\* generateRoad(count), up to its loop.
GRStart(n) ==
  /\ calls' = [calls EXCEPT !.running = runs + 1]
  /\ UNCHANGED <<probe, utilityPoles, composition>>
  /\ pc = "idle"
  /\ scene' = SceneWithoutRoadPieces
  /\ roadPieces' = <<>>
  /\ occupiedCells' = {}
  /\ cur' = Transform(0, 0, 0, 0)
  /\ consecutiveFailures' = 0
  /\ i' = 0
  /\ tried' = {}
  /\ count' = n
  /\ pc' = "gr_loop"
  /\ gen' = "generateRoad"
  /\ lastGrid' = -1
  /\ again' = FALSE
  /\ result' = "none"
  /\ UNCHANGED <<roadTemplates, groundTiles, worldGrid, templates, spineLocals, walkLocals,
                 netLocals, firstRun>>
  /\ runs' = runs + 1

\* The iteration of generateRoad that empties occupiedCells when no piece
\* fitted.
GRTryForgetting ==
  /\ UNCHANGED <<calls, probe, utilityPoles, composition>>
  /\ pc = "gr_loop"
  /\ i < count
  /\ consecutiveFailures < maxFailures
  /\ \E pieceName \in pieceOptions \ tried :
       \E r \in {trySpawnRoadPiece(pieceName, cur)} :
           /\ scene' = r.scene
           /\ groundTiles' = r.groundTiles
           /\ worldGrid' = r.worldGrid
           /\ occupiedCells' = IF r.piece = <<>> /\ tried \cup {pieceName} = pieceOptions
                               THEN {} ELSE r.occupiedCells
           /\ roadPieces' = r.roadPieces
           /\ IF r.piece # <<>>
              THEN /\ result' = "piece"
                   /\ consecutiveFailures' = 0
                   /\ \E socketTransform \in {getSocketTransform(r.piece)} :
                        cur' = IF socketTransform # <<>> THEN socketTransform ELSE cur
                   /\ i' = i + 1
                   /\ tried' = {}
              ELSE /\ result' = "null"
                   /\ cur' = cur
                   /\ IF tried \cup {pieceName} = pieceOptions
                      THEN /\ consecutiveFailures' = consecutiveFailures + 1
                           /\ i' = i + 1
                           /\ tried' = {}
                      ELSE /\ tried' = tried \cup {pieceName}
                           /\ UNCHANGED <<consecutiveFailures, i>>
  /\ UNCHANGED <<roadTemplates, pc, gen, count, templates, spineLocals, walkLocals,
                 netLocals, history>>

\* One call of trySpawnRoadPiece in the inner loop of generateRoad, on the next
\* name of the shuffled options, and what follows it in the iteration.
GRTry ==
  /\ UNCHANGED <<calls, probe, utilityPoles, composition>>
  /\ pc = "gr_loop"
  /\ i < count
  /\ consecutiveFailures < maxFailures
  /\ \E pieceName \in pieceOptions \ tried :
       \E r \in {trySpawnRoadPiece(pieceName, cur)} :
           /\ scene' = r.scene
           /\ groundTiles' = r.groundTiles
           /\ worldGrid' = r.worldGrid
           /\ occupiedCells' = r.occupiedCells
           /\ roadPieces' = r.roadPieces
           /\ IF r.piece # <<>>
              THEN /\ result' = "piece"
                   /\ consecutiveFailures' = 0
                   /\ \E socketTransform \in {getSocketTransform(r.piece)} :
                        cur' = IF socketTransform # <<>> THEN socketTransform ELSE cur
                   /\ i' = i + 1
                   /\ tried' = {}
              ELSE /\ result' = "null"
                   /\ cur' = cur
                   /\ IF tried \cup {pieceName} = pieceOptions
                      THEN /\ consecutiveFailures' = consecutiveFailures + 1
                           /\ i' = i + 1
                           /\ tried' = {}
                      ELSE /\ tried' = tried \cup {pieceName}
                           /\ UNCHANGED <<consecutiveFailures, i>>
  /\ UNCHANGED <<roadTemplates, pc, gen, count, templates, spineLocals, walkLocals,
                 netLocals, history>>

\* The loop of generateRoad ends: the function returns.
GRFinish ==
  /\ UNCHANGED <<calls, probe, utilityPoles, composition>>
  /\ pc = "gr_loop"
  /\ ~(i < count /\ consecutiveFailures < maxFailures)
  /\ pc' = "idle"
  /\ ReturnLocals
  /\ UNCHANGED <<fields, gen, seedState, history>>

(***************************************************************************)
(* SYSTEM 1: spawnProceduralRoadSystem1.                                   *)
(***************************************************************************)
\* The first lines, up to the first await.
S1Start(n) ==
  /\ calls' = [calls EXCEPT !.running = runs + 1]
  /\ UNCHANGED <<probe, utilityPoles, composition>>
  /\ pc = "idle"
  /\ scene' = SceneWithoutRoadPieces
  /\ roadPieces' = <<>>
  /\ occupiedCells' = {}
  /\ lastCurveDir' = 0
  /\ sameDirCount' = 0
  /\ straightsSinceCurve' = 99
  /\ count' = n
  /\ pc' = "s1_load"
  /\ gen' = "system1"
  /\ lastGrid' = -1
  /\ again' = FALSE
  /\ result' = "none"
  /\ runs' = runs + 1
  /\ UNCHANGED <<roadTemplates, groundTiles, worldGrid, templates, i, cur, spineLocals,
                 recentCellSets, netLocals, roadLocals, tried, firstRun>>

\* The template loads (a failed load is caught and logged), then the locals of
\* the spawn loop.
S1Load(loaded) ==
  /\ UNCHANGED <<calls, probe, utilityPoles, composition>>
  /\ pc = "s1_load"
  /\ templates' = loaded
  /\ recentCellSets' = <<>>
  /\ i' = 0
  /\ tried' = {}
  /\ pc' = "s1_loop"
  /\ UNCHANGED <<fields, gen, count, cur, spineLocals, lastCurveDir, sameDirCount,
                 straightsSinceCurve, netLocals, roadLocals, result, history>>

Candidate(k, m) == [key |-> k, mirror |-> m]

\* The predicate of a filter that keeps the rest after a curve and not the cap
\* on curves of one direction.
filterByRestOnly(c) ==
  \/ ROAD_TYPES[c.key] # "curve"
  \/ ~(straightsSinceCurve < MIN_STRAIGHTS_AFTER_CURVE)

\* The predicate of a filter that keeps the cap on curves of one direction and
\* not the rest after a curve.
filterByCapOnly(c) ==
  \/ ROAD_TYPES[c.key] # "curve"
  \/ ~((IF c.mirror THEN -1 ELSE 1) = lastCurveDir /\ sameDirCount >= MAX_SAME_DIR_CURVES)

\* The predicate of filterByRules.
filterByRules(c) ==
  \/ ROAD_TYPES[c.key] # "curve"
  \/ /\ ~(straightsSinceCurve < MIN_STRAIGHTS_AFTER_CURVE)
     /\ ~((IF c.mirror THEN -1 ELSE 1) = lastCurveDir /\ sameDirCount >= MAX_SAME_DIR_CURVES)

\* The candidates with curves offered from the first iteration on.
candidatesOfAllTypes ==
  {c \in {Candidate(k, FALSE) : k \in SeqToSet(RoadTypes)}
          \cup {Candidate(k, TRUE) :
                  k \in {t \in SeqToSet(RoadTypes) : ROAD_TYPES[t] = "curve"}} :
     filterByRules(c)}

\* The candidates of iteration i after filterByRules (the order the shuffle
\* gives them is any order).
candidates ==
  {c \in (IF i < 3
          THEN {Candidate(k, FALSE) : k \in {t \in SeqToSet(RoadTypes) : ROAD_TYPES[t] = "straight"}}
          ELSE {Candidate(k, FALSE) : k \in SeqToSet(RoadTypes)}
                 \cup {Candidate(k, TRUE) :
                         k \in {t \in SeqToSet(RoadTypes) : ROAD_TYPES[t] = "curve"}}) :
     filterByRules(c)}

\* sampleCenterline(piece) of system 1, as the cells of its samples.
sampleCenterline1(piece) ==
  IF findSocketOut(piece.type) = 0 THEN <<cellKey(piece.x, piece.z, 1)>>
  ELSE sampleRoadCells(piece)

\* checkCollision(samples, recentCells) of system 1.
checkCollision1(cells, recentCells) ==
  \E k \in 1..Len(cells) : cells[k] \in occupiedCells /\ cells[k] \notin recentCells

\* Where system 1 puts a clone before it tests it.
CandidateTransform ==
  IF Len(roadPieces) = 0 THEN Transform(0, 0, 5, 0)
  ELSE Let(getSocketTransform(roadPieces[Len(roadPieces)]), LAMBDA t :
         IF t # <<>> THEN t ELSE Transform(0, 0, 0, 0))

\* The next candidate of the shuffled list is tried; when it was the last one
\* and nothing was placed the loop breaks.
S1Try ==
  /\ UNCHANGED <<calls, probe, utilityPoles, composition>>
  /\ pc = "s1_loop"
  /\ i < count
  /\ \E c \in candidates \ tried :
       IF c.key \notin templates
       THEN \* if (!template) continue
            /\ result' = "skip"
            /\ tried' = tried \cup {c}
            /\ pc' = IF tried' = candidates THEN "s1_end" ELSE pc
            /\ UNCHANGED <<scene, occupiedCells, roadPieces, walkLocals, i>>
       ELSE \E target \in {CandidateTransform} :
            \E piece \in {Piece(FreshId(scene, roadPieces, groundTiles), c.key,
                                target.x, target.y, target.z, target.h, 2, c.mirror, 0,
                                calls.running)} :
            \E samples \in {sampleCenterline1(piece)} :
              IF checkCollision1(samples, UNION SeqToSet(recentCellSets))
              THEN \* scene.add(piece), then scene.remove(piece)
                   /\ result' = "null"
                   /\ scene' = (scene \cup {piece.id}) \ {piece.id}
                   /\ tried' = tried \cup {c}
                   /\ pc' = IF tried' = candidates THEN "s1_end" ELSE pc
                   /\ UNCHANGED <<occupiedCells, roadPieces, walkLocals, i>>
              ELSE /\ result' = "piece"
                   /\ scene' = scene \cup {piece.id}
                   /\ occupiedCells' = occupiedCells \cup SeqToSet(samples)
                   /\ recentCellSets' =
                        Let(Append(recentCellSets, SeqToSet(samples)), LAMBDA r :
                          IF Len(r) > 3 THEN Tail(r) ELSE r)
                   /\ roadPieces' = Append(roadPieces, piece)
                   /\ IF ROAD_TYPES[c.key] = "curve"
                      THEN /\ sameDirCount' =
                                IF (IF c.mirror THEN -1 ELSE 1) = lastCurveDir
                                THEN sameDirCount + 1 ELSE 1
                           /\ lastCurveDir' = IF c.mirror THEN -1 ELSE 1
                           /\ straightsSinceCurve' = 0
                      ELSE /\ straightsSinceCurve' = straightsSinceCurve + 1
                           /\ UNCHANGED <<lastCurveDir, sameDirCount>>
                   /\ i' = i + 1
                   /\ tried' = {}
                   /\ pc' = pc
  /\ UNCHANGED <<roadTemplates, groundTiles, worldGrid, gen, count, templates, cur,
                 spineLocals, netLocals, roadLocals, history>>

\* The spawn loop ends (count reached, or the break of a dead end): the
\* function returns.
S1Finish ==
  /\ UNCHANGED <<calls, probe, utilityPoles, composition>>
  /\ \/ pc = "s1_end"
     \/ pc = "s1_loop" /\ ~(i < count)
  /\ pc' = "idle"
  /\ ReturnLocals
  /\ UNCHANGED <<fields, gen, seedState, history>>

(***************************************************************************)
(* SYSTEM 2: spawnRoadNetworkSystem2.                                      *)
(***************************************************************************)
\* The first lines, up to the first await.
S2Start(n) ==
  /\ calls' = [calls EXCEPT !.running = runs + 1]
  /\ UNCHANGED <<probe, utilityPoles, composition>>
  /\ pc = "idle"
  /\ scene' = SceneWithoutRoadPieces
  /\ roadPieces' = <<>>
  /\ occupiedCells' = {}
  /\ count' = n
  /\ pc' = "s2_load"
  /\ gen' = "system2"
  /\ lastGrid' = -1
  /\ again' = FALSE
  /\ result' = "none"
  /\ runs' = runs + 1
  /\ UNCHANGED <<roadTemplates, groundTiles, worldGrid, templates, i, cur, spineLocals,
                 walkLocals, netLocals, roadLocals, tried, firstRun>>

\* The template loads, then the empty queue of open sockets.
S2Load(loaded) ==
  /\ UNCHANGED <<calls, probe, utilityPoles, composition>>
  /\ pc = "s2_load"
  /\ templates' = loaded
  /\ openSockets' = <<>>
  /\ pc' = "s2_first"
  /\ UNCHANGED <<fields, gen, count, i, cur, spineLocals, walkLocals, placed, attempts,
                 roadLocals, tried, result, history>>

\* sampleCenterline(piece) of system 2, as the cells of its samples: the
\* origin, then five samples towards every socket.
sampleCenterline2(piece) ==
  Let(findAllSockets(piece.type), LAMBDA sockets :
    <<cellKey(piece.x, piece.z, 1)>> \o
    [n \in 1..(5 * Len(sockets)) |->
       Let(SocketWorld(piece, sockets[((n - 1) \div 5) + 1]), LAMBDA e :
         cellKey(Along(piece.x, e.x, ((n - 1) % 5) + 1, 5),
                 Along(piece.z, e.z, ((n - 1) % 5) + 1, 5), 5))])

\* checkCollision(samples) of system 2.
checkCollision2(cells) == \E k \in 1..Len(cells) : cells[k] \in occupiedCells

\* The queue entries of the sockets of a piece, in traversal order.
SocketEntries(piece) ==
  Let(findAllSockets(piece.type), LAMBDA sockets :
    [n \in 1..Len(sockets) |->
       [t |-> SocketWorld(piece, sockets[n]),
        type |-> SocketRole(TemplateChildren[piece.type][sockets[n]].name)]])

\* The first piece: templates['Road1'].clone(true) throws when Road1 did not
\* load, and the function ends there.
S2First ==
  /\ UNCHANGED <<calls, probe, utilityPoles, composition>>
  /\ pc = "s2_first"
  /\ IF "Road1" \notin templates
     THEN \* TypeError: templates['Road1'] is undefined
          /\ pc' = "s2_end"
          /\ result' = "threw"
          /\ UNCHANGED <<scene, roadPieces, occupiedCells, openSockets, placed, attempts>>
     ELSE \E firstPiece \in {Piece(FreshId(scene, roadPieces, groundTiles), "Road1",
                                   0, 0, 5, 0, 1, FALSE, 0, calls.running)} :
            /\ result' = result
            /\ scene' = scene \cup {firstPiece.id}
            /\ roadPieces' = Append(roadPieces, firstPiece)
            /\ occupiedCells' = occupiedCells \cup SeqToSet(sampleCenterline2(firstPiece))
            /\ openSockets' = openSockets \o SocketEntries(firstPiece)
            /\ placed' = 1
            /\ attempts' = 0
            /\ pc' = "s2_loop"
  /\ UNCHANGED <<roadTemplates, groundTiles, worldGrid, gen, count, templates, i, cur,
                 spineLocals, walkLocals, roadLocals, tried, history>>

\* splice(idx, 1)
Splice(q, idx) == SubSeq(q, 1, idx - 1) \o SubSeq(q, idx + 1, Len(q))

\* The iteration with an attempts counter that skipped iterations leave alone.
S2StepSkipsUncounted ==
  /\ UNCHANGED <<calls, probe, utilityPoles, composition>>
  /\ pc = "s2_loop"
  /\ placed < count /\ Len(openSockets) > 0 /\ attempts < count * 3
  /\ \E socketIdx \in 1..Len(openSockets), pieceType \in SeqToSet(NetTypes) :
       IF pieceType \notin templates
       THEN \* if (!template) continue
            /\ result' = "skip"
            /\ UNCHANGED <<scene, roadPieces, occupiedCells, openSockets, placed, attempts>>
       ELSE \E piece \in {Piece(FreshId(scene, roadPieces, groundTiles), pieceType,
                                openSockets[socketIdx].t.x, openSockets[socketIdx].t.y,
                                openSockets[socketIdx].t.z, openSockets[socketIdx].t.h,
                                1, FALSE, 0, calls.running)} :
            \E samples \in {sampleCenterline2(piece)} :
              IF checkCollision2(samples)
              THEN /\ result' = "null"
                   /\ attempts' = attempts + 1
                   /\ scene' = (scene \cup {piece.id}) \ {piece.id}
                   /\ openSockets' = Splice(openSockets, socketIdx)
                   /\ UNCHANGED <<roadPieces, occupiedCells, placed>>
              ELSE /\ result' = "piece"
                   /\ attempts' = attempts + 1
                   /\ scene' = scene \cup {piece.id}
                   /\ occupiedCells' = occupiedCells \cup SeqToSet(samples)
                   /\ roadPieces' = Append(roadPieces, piece)
                   /\ openSockets' = Splice(openSockets, socketIdx) \o SocketEntries(piece)
                   /\ placed' = placed + 1
  /\ UNCHANGED <<roadTemplates, groundTiles, worldGrid, pc, gen, count, templates, i, cur,
                 spineLocals, walkLocals, roadLocals, tried, history>>

\* One iteration of the network loop: any open socket, either piece type.
S2Step ==
  /\ UNCHANGED <<calls, probe, utilityPoles, composition>>
  /\ pc = "s2_loop"
  /\ placed < count /\ Len(openSockets) > 0 /\ attempts < count * 3
  /\ attempts' = attempts + 1
  /\ \E socketIdx \in 1..Len(openSockets), pieceType \in SeqToSet(NetTypes) :
       IF pieceType \notin templates
       THEN \* if (!template) continue
            /\ result' = "skip"
            /\ UNCHANGED <<scene, roadPieces, occupiedCells, openSockets, placed>>
       ELSE \E piece \in {Piece(FreshId(scene, roadPieces, groundTiles), pieceType,
                                openSockets[socketIdx].t.x, openSockets[socketIdx].t.y,
                                openSockets[socketIdx].t.z, openSockets[socketIdx].t.h,
                                1, FALSE, 0, calls.running)} :
            \E samples \in {sampleCenterline2(piece)} :
              IF checkCollision2(samples)
              THEN /\ result' = "null"
                   /\ scene' = (scene \cup {piece.id}) \ {piece.id}
                   /\ openSockets' = Splice(openSockets, socketIdx)
                   /\ UNCHANGED <<roadPieces, occupiedCells, placed>>
              ELSE /\ result' = "piece"
                   /\ scene' = scene \cup {piece.id}
                   /\ occupiedCells' = occupiedCells \cup SeqToSet(samples)
                   /\ roadPieces' = Append(roadPieces, piece)
                   /\ openSockets' = Splice(openSockets, socketIdx) \o SocketEntries(piece)
                   /\ placed' = placed + 1
  /\ UNCHANGED <<roadTemplates, groundTiles, worldGrid, pc, gen, count, templates, i, cur,
                 spineLocals, walkLocals, roadLocals, tried, history>>

\* The network loop ends, or the first piece threw: the function is over.
S2Finish ==
  /\ UNCHANGED <<calls, probe, utilityPoles, composition>>
  /\ \/ pc = "s2_end"
     \/ pc = "s2_loop" /\ ~(placed < count /\ Len(openSockets) > 0 /\ attempts < count * 3)
  /\ pc' = "idle"
  /\ ReturnLocals
  /\ UNCHANGED <<fields, gen, seedState, history>>

(***************************************************************************)
(* Invocations suspended at an await.  The generators are async functions: *)
(* between the lines that clear the fields and the placement loop they     *)
(* await the loads of their assets, and while one invocation waits there   *)
(* other code runs, a second invocation included.  After its last await    *)
(* an invocation runs to its end without interruption.                     *)
(***************************************************************************)
\* What a suspended invocation resumes with: its position and the locals it
\* had set before the await.
Continuation ==
  [run |-> calls.running, gen |-> gen, count |-> count, pc |-> pc, seedState |-> seedState,
   lastCurveDir |-> lastCurveDir, sameDirCount |-> sameDirCount,
   straightsSinceCurve |-> straightsSinceCurve]

\* The running invocation reaches an await of its loads and other code runs.
AwaitYields ==
  /\ pc \in {"s3_load", "s1_load", "s2_load"}
  /\ Len(calls.suspended) < MaxSuspended
  /\ calls' = [calls EXCEPT !.suspended = Append(@, Continuation)]
  /\ pc' = "idle"
  /\ UNCHANGED <<probe, utilityPoles, composition>>
  /\ UNCHANGED <<fields, gen, count, templates, i, cur, spineLocals, walkLocals, netLocals,
                 roadLocals, tried, result, history>>

\* No code runs and the loads of a suspended invocation are over: it goes on.
AwaitResumes ==
  /\ pc = "idle"
  /\ UNCHANGED <<probe, utilityPoles, composition>>
  /\ \E k \in 1..Len(calls.suspended) :
       \E c \in {calls.suspended[k]} :
         /\ calls' = [running |-> c.run, suspended |-> Splice(calls.suspended, k)]
         /\ gen' = c.gen
         /\ count' = c.count
         /\ pc' = c.pc
         /\ seedState' = c.seedState
         /\ lastCurveDir' = c.lastCurveDir
         /\ sameDirCount' = c.sameDirCount
         /\ straightsSinceCurve' = c.straightsSinceCurve
  /\ UNCHANGED <<fields, templates, i, cur, branches, bi, bj, recentCellSets, netLocals,
                 roadLocals, tried, result, history>>

(***************************************************************************)
(* Direct calls of the helper functions.                                   *)
(***************************************************************************)
\* Everything but probe stays as it is.
ProbeOnly ==
  UNCHANGED <<fields, pc, gen, count, templates, i, cur, spineLocals, walkLocals, netLocals,
              roadLocals, tried, result, history, calls, utilityPoles, composition>>

Point(px, pz) == [x |-> px, z |-> pz]

\* The segments sampleRoadCells is called on: from a point near the origin
\* to a point up to MaxLen away on either axis.
Segments ==
  {[start |-> Point(sx, sz), end |-> Point(sx + dx, sz + dz)] :
     sx \in -MaxOrigin..MaxOrigin, sz \in -MaxOrigin..MaxOrigin,
     dx \in -MaxLen..MaxLen, dz \in -MaxLen..MaxLen}

InitSample ==
  /\ Constructed
  /\ \E seg \in Segments :
       probe = [fn |-> "sampleRoadCells", start |-> seg.start, end |-> seg.end,
                returned |-> FALSE, points |-> <<>>, cells |-> <<>>]

\* The loop of sampleRoadCells runs on the segment.
CallSampleRoadCells ==
  /\ probe.fn = "sampleRoadCells"
  /\ ~probe.returned
  /\ probe' = [probe EXCEPT !.returned = TRUE,
                            !.points = SegmentPoints(probe.start, probe.end),
                            !.cells = SegmentCells(probe.start, probe.end)]
  /\ ProbeOnly

\* The node names of the probed models, and the socket names looked up.
NodeNames == {"mesh", "socket_out", "Socket_Out", "socket_left", "SOCKET_LEFT", "socket_in"}

SocketNames == {"socket_out", "socket_left", "socket"}

\* The lists of up to MaxChildren node names, in traversal order.
NodeLists == UNION {[1..n -> NodeNames] : n \in 0..MaxChildren}

InitLookup ==
  /\ Constructed
  /\ \E names \in NodeLists :
       \/ probe = [fn |-> "findSocketOut", names |-> names, socketName |-> "",
                   returned |-> FALSE, result |-> 0]
       \/ \E socketName \in SocketNames :
            probe = [fn |-> "findSocket", names |-> names, socketName |-> socketName,
                     returned |-> FALSE, result |-> 0]

\* The model whose children have the probed names.
ProbedChildren == [k \in 1..Len(probe.names) |-> Child(probe.names[k], 0, 0, 0)]

\* findSocketOut(model) is called.
CallFindSocketOut ==
  /\ probe.fn = "findSocketOut"
  /\ ~probe.returned
  /\ probe' = [probe EXCEPT !.returned = TRUE, !.result = SocketOutOf(ProbedChildren)]
  /\ ProbeOnly

\* findSocket(model, socketName) is called.
CallFindSocket ==
  /\ probe.fn = "findSocket"
  /\ ~probe.returned
  /\ probe' = [probe EXCEPT !.returned = TRUE,
                            !.result = SocketOf(ProbedChildren, probe.socketName)]
  /\ ProbeOnly

\* The size of the cells of a key function, and the perturbations below half
\* of it, in units of 1 / KeyScale metres.
SizeOf(fn) == IF fn = "cellKey" THEN GRID_CELL_SIZE ELSE TILE_SIZE

Noise(fn) ==
  {d \in -(SizeOf(fn) * KeyScale)..(SizeOf(fn) * KeyScale) :
     2 * d < SizeOf(fn) * KeyScale /\ -(2 * d) < SizeOf(fn) * KeyScale}

\* cellKey and getGridKey are called on a position (x, z), coordinates counted
\* in units of 1 / KeyScale metres, and on the position moved by (d, -d).
InitKey ==
  /\ Constructed
  /\ \E fn \in {"cellKey", "getGridKey"} :
       \E x \in -MaxCoord..MaxCoord, z \in -MaxCoord..MaxCoord, d \in Noise(fn) :
         probe = [fn |-> fn, x |-> x, z |-> z, d |-> d, returned |-> FALSE,
                  key |-> <<0, 0>>, moved |-> <<0, 0>>]

CallCellKey ==
  /\ probe.fn = "cellKey"
  /\ ~probe.returned
  /\ probe' = [probe EXCEPT !.returned = TRUE,
                            !.key = cellKey(probe.x, probe.z, KeyScale),
                            !.moved = cellKey(probe.x + probe.d, probe.z - probe.d, KeyScale)]
  /\ ProbeOnly

CallGetGridKey ==
  /\ probe.fn = "getGridKey"
  /\ ~probe.returned
  /\ probe' = [probe EXCEPT !.returned = TRUE,
                            !.key = getGridKey(probe.x, probe.z, KeyScale),
                            !.moved = getGridKey(probe.x + probe.d, probe.z - probe.d, KeyScale)]
  /\ ProbeOnly

\* The cells spawnGrassTile and removeTileAt are called on directly: cells of
\* the smallest grid, a cell the road runs over and a cell outside the grid.
ProbeCells == {<<0, 0>>, <<-1, -1>>, <<0, 1>>, <<1, 1>>}

InitGrid ==
  /\ Constructed
  /\ probe = [fn |-> "none", key |-> <<0, 0>>, result |-> "none", n |-> 0]

\* A direct call of a ground function leaves everything but the ground state
\* and the record of the call.
GroundCallOnly ==
  UNCHANGED <<roadTemplates, roadPieces, occupiedCells, pc, gen, count, templates, i, cur,
              spineLocals, walkLocals, netLocals, roadLocals, tried, result, history, calls,
              utilityPoles, composition>>

\* spawnGrassTile(gridX, gridZ) is called; it returns the tile, or null.
CallSpawnGrassTile(key) ==
  /\ pc = "idle"
  /\ probe.n < MaxCalls
  /\ \E g \in {spawnGrassTile(Ground(scene, groundTiles, worldGrid), key, roadPieces)} :
       /\ scene' = g.scene
       /\ groundTiles' = g.groundTiles
       /\ worldGrid' = g.worldGrid
  /\ probe' = [fn |-> "spawnGrassTile", key |-> key,
                result |-> IF key \in DOMAIN worldGrid THEN "null" ELSE "tile",
                n |-> probe.n + 1]
  /\ GroundCallOnly

\* removeTileAt(gridX, gridZ) is called; it returns true or false.
CallRemoveTileAt(key) ==
  /\ pc = "idle"
  /\ probe.n < MaxCalls
  /\ \E g \in {removeTileAt(Ground(scene, groundTiles, worldGrid), key)} :
       /\ scene' = g.scene
       /\ groundTiles' = g.groundTiles
       /\ worldGrid' = g.worldGrid
  /\ probe' = [fn |-> "removeTileAt", key |-> key,
                result |-> IF key \in DOMAIN worldGrid THEN "true" ELSE "false",
                n |-> probe.n + 1]
  /\ GroundCallOnly

(***************************************************************************)
(* Scene composition: the selectable objects, the undo history, the saved  *)
(* scenes and the camera views.  An object name `${type}_${k}` is the pair *)
(* <<type, k>>; 'car' is <<"car", 0>>.  No building type is a prefix of    *)
(* another one and none holds an underscore, so a name starts with a type  *)
(* exactly when it is a name of that type.                                 *)
(***************************************************************************)
Name(type, k) == <<type, k>>

\* o.name.startsWith(type)
StartsWith(name, type) == name[1] = type

Obj(oid, oname, otype, opos) == [id |-> oid, name |-> oname, spawnedType |-> otype, pos |-> opos]

\* fullSceneLayout of loadAssets, then the car.
sceneLayout ==
  <<Name("apartment1", 4), Name("autoshop", 4), Name("building1", 4), Name("factory", 4),
    Name("house1", 2), Name("house2", 3), Name("house3", 1), Name("house3", 4),
    Name("house4", 4), Name("nuclearPlant", 1), Name("office", 1), Name("office", 2),
    Name("roadbarrier1", 2), Name("roadbarrier1", 4), Name("roadbarrier1", 5),
    Name("trafficlight1", 1), Name("tree1", 1), Name("tree1", 4), Name("warehouse", 1),
    Name("warehouse", 3), Name("car", 0)>>

\* The keys of this.buildingPaths.
buildingPaths ==
  {"house1", "house2", "house3", "nuclearplant", "warehouse", "office", "tree1",
   "trafficlight1", "roadbarrier1", "apartment1", "building1", "house4", "autoshop", "factory"}

\* An object of camera views is the sequence of its entries in the order of
\* their insertion, the order Object.keys() lists them in.
View(vname, cam) == [name |-> vname, cam |-> cam]

\* views[name] is truthy: the key is there and holds a camera state.
Has(views, name) == \E k \in 1..Len(views) : views[k].name = name /\ views[k].cam # NoCamera

\* views[name], for a key that is there.
Get(views, name) == views[LastMatch(views, LAMBDA e : e.name = name)].cam

\* views[name] = cam: a key that is there keeps its place.
Put(views, name, cam) ==
  IF \E k \in 1..Len(views) : views[k].name = name
  THEN [k \in 1..Len(views) |-> IF views[k].name = name THEN View(name, cam) ELSE views[k]]
  ELSE Append(views, View(name, cam))

\* delete views[name]
Delete(views, name) == SelectSeq(views, LAMBDA e : e.name # name)

\* The objects registered by loadAssets.
LayoutObjects == [k \in 1..Len(sceneLayout) |-> Obj(k, sceneLayout[k], "", 0)]

\* An identity no object has.
FreshObj(objs) ==
  CHOOSE n \in 1..(Len(objs) + 2) :
    /\ n # selectedObject
    /\ \A k \in 1..Len(objs) : objs[k].id # n
    /\ \A m \in 1..(n - 1) : m = selectedObject \/ \E k \in 1..Len(objs) : objs[k].id = m

\* state.transforms: forEach assigns transforms[obj.name], so of the objects
\* with one name the last one stays.
Transforms(objs) ==
  [n \in {objs[k].name : k \in 1..Len(objs)} |->
     objs[LastMatch(objs, LAMBDA o : o.name = n)].pos]

\* state.spawned
SpawnedOf(objs) ==
  Let(SelectSeq(objs, LAMBDA o : o.spawnedType # ""), LAMBDA sp :
    [k \in 1..Len(sp) |-> [name |-> sp[k].name, type |-> sp[k].spawnedType]])

\* captureSceneState() with the objects objs, the camera view objects heap,
\* the reference ref in this.currentCameraViews and the active view active:
\* the state it returns, and the camera view objects after it has written the
\* camera into the active view.
captureSceneState(objs, heap, ref, active) ==
  [state |-> [transforms |-> Transforms(objs), spawned |-> SpawnedOf(objs),
              cameraViews |-> ref, activeCameraView |-> active],
   heap |-> [heap EXCEPT ![ref] = Put(@, active, camera)]]

\* The state after init(): the layout is loaded and saveDefaultSceneState()
\* has captured it.
InitScene ==
  /\ ConstructedRoads
  /\ probe = NoProbe
  /\ selectableObjects = LayoutObjects
  /\ selectedObject = 0
  /\ undoHistory = <<>>
  /\ savedScenes = <<>>
  /\ currentSceneName = ""
  /\ currentCameraViews = 1
  /\ activeCameraView = "Default"
  /\ cameraViewObjects = <<<<View("Default", 0)>>>>
  /\ camera = 0

\* this.defaultSceneState
defaultSceneState ==
  [transforms |-> Transforms(LayoutObjects), spawned |-> <<>>, cameraViews |-> 1,
   activeCameraView |-> "Default"]

\* A step of scene composition leaves the roads and the ground alone.
CompositionOnly ==
  UNCHANGED <<fields, pc, gen, count, templates, i, cur, spineLocals, walkLocals, netLocals,
              roadLocals, tried, result, history, calls, probe, utilityPoles>>

\* undoHistory after a push that never discards.
PushedUnbounded(state) == Append(undoHistory, state)

\* undoHistory after pushUndoState() has pushed the captured state and
\* discarded the oldest one of a history that is too long.
Pushed(state) ==
  Let(Append(undoHistory, state), LAMBDA h :
    IF Len(h) > MAX_UNDO_STEPS THEN Tail(h) ELSE h)

\* A click on the selectable object obj: selectObject(obj).
selectObject(oid) ==
  /\ \E k \in 1..Len(selectableObjects) : selectableObjects[k].id = oid
  /\ selectedObject' = oid
  /\ UNCHANGED <<selectableObjects, undoHistory, savedScenes, currentSceneName,
                 currentCameraViews, activeCameraView, cameraViewObjects, camera>>
  /\ CompositionOnly

\* deleteSelectedObject()
deleteSelectedObject ==
  /\ IF selectedObject = 0
     THEN UNCHANGED <<selectableObjects, selectedObject>>
     ELSE /\ selectableObjects' = SelectSeq(selectableObjects, LAMBDA o : o.id # selectedObject)
          /\ selectedObject' = 0
  /\ UNCHANGED <<undoHistory, savedScenes, currentSceneName, currentCameraViews,
                 activeCameraView, cameraViewObjects, camera>>
  /\ CompositionOnly

\* The name spawnBuilding gives a new building of a type.
SpawnName(objs, type) ==
  Name(type, Cardinality({k \in 1..Len(objs) : StartsWith(objs[k].name, type)}) + 1)

\* spawnBuilding(type): the undo state is pushed, and when the model loads
\* the building is registered under its generated name and selected.
spawnBuilding(type, loads) ==
  /\ Len(undoHistory) < MaxSpawns
  /\ IF type \notin buildingPaths
     THEN UNCHANGED <<selectableObjects, selectedObject, undoHistory, cameraViewObjects>>
     ELSE \E c \in {captureSceneState(selectableObjects, cameraViewObjects,
                                      currentCameraViews, activeCameraView)} :
            /\ undoHistory' = Pushed(c.state)
            /\ cameraViewObjects' = c.heap
            /\ IF loads
               THEN \E oid \in {FreshObj(selectableObjects)} :
                      /\ selectableObjects' =
                           Append(selectableObjects,
                                  Obj(oid, SpawnName(selectableObjects, type), type, 0))
                      /\ selectedObject' = oid
               ELSE UNCHANGED <<selectableObjects, selectedObject>>
  /\ UNCHANGED <<savedScenes, currentSceneName, currentCameraViews, activeCameraView, camera>>
  /\ CompositionOnly

RECURSIVE Recreated(_, _, _)
\* applySceneState: the spawned objects of the state that do not exist yet
\* are loaded and registered, from entry k on.
Recreated(objs, spawned, k) ==
  IF k > Len(spawned) THEN objs
  ELSE Recreated(
         IF (\E m \in 1..Len(objs) : objs[m].name = spawned[k].name)
              \/ spawned[k].type \notin buildingPaths
         THEN objs
         ELSE Append(objs, Obj(FreshObj(objs), spawned[k].name, spawned[k].type, 0)),
         spawned, k + 1)

\* selectableObjects after applySceneState(state): the spawned objects the
\* state does not name are removed, the ones it names are recreated, and
\* every object whose name is a key of transforms takes that transform.
AppliedObjects(state) ==
  Let(Recreated(
        SelectSeq(selectableObjects, LAMBDA o :
          o.spawnedType = ""
            \/ \E k \in 1..Len(state.spawned) : state.spawned[k].name = o.name),
        state.spawned, 1), LAMBDA objs :
    [k \in 1..Len(objs) |->
       IF objs[k].name \in DOMAIN state.transforms
       THEN [objs[k] EXCEPT !.pos = state.transforms[objs[k].name]]
       ELSE objs[k]])

\* applySceneState(state): the objects, then the camera views of the state
\* become the current ones and the camera takes the state's active view when
\* that view holds a camera state.
applySceneState(state) ==
  /\ selectableObjects' = AppliedObjects(state)
  /\ currentCameraViews' = state.cameraViews
  /\ activeCameraView' = state.activeCameraView
  /\ camera' = IF Has(cameraViewObjects[state.cameraViews], state.activeCameraView)
               THEN Get(cameraViewObjects[state.cameraViews], state.activeCameraView)
               ELSE camera

\* The orbit controls move the camera.
MoveCamera ==
  /\ \E c \in 0..MaxCamera : c # camera /\ camera' = c
  /\ UNCHANGED <<selectableObjects, selectedObject, undoHistory, savedScenes, currentSceneName,
                 currentCameraViews, activeCameraView, cameraViewObjects>>
  /\ CompositionOnly

\* savedScenes[name] = state
Saved(name, state) ==
  [n \in DOMAIN savedScenes \cup {name} |-> IF n = name THEN state ELSE savedScenes[n]]

\* saveScene(name)
saveScene(name) ==
  /\ \E c \in {captureSceneState(selectableObjects, cameraViewObjects, currentCameraViews,
                                 activeCameraView)} :
       /\ savedScenes' = Saved(name, c.state)
       /\ cameraViewObjects' = c.heap
  /\ currentSceneName' = name
  /\ UNCHANGED <<selectableObjects, selectedObject, undoHistory, currentCameraViews,
                 activeCameraView, camera>>
  /\ CompositionOnly

\* loadScene(name)
loadScene(name) ==
  /\ IF name \in DOMAIN savedScenes
     THEN /\ applySceneState(savedScenes[name])
          /\ currentSceneName' = name
     ELSE UNCHANGED <<selectableObjects, currentCameraViews, activeCameraView, camera,
                      currentSceneName>>
  /\ UNCHANGED <<selectedObject, undoHistory, savedScenes, cameraViewObjects>>
  /\ CompositionOnly

\* loadDefaultScene(): the default state is applied, then the current camera
\* views are a new object that holds the camera as its Default view.
loadDefaultScene ==
  /\ Len(cameraViewObjects) < MaxViewObjects
  /\ selectableObjects' = AppliedObjects(defaultSceneState)
  /\ camera' = IF Has(cameraViewObjects[1], "Default")
               THEN Get(cameraViewObjects[1], "Default") ELSE camera
  /\ currentSceneName' = ""
  /\ cameraViewObjects' = Append(cameraViewObjects, <<View("Default", camera')>>)
  /\ currentCameraViews' = Len(cameraViewObjects) + 1
  /\ activeCameraView' = "Default"
  /\ UNCHANGED <<selectedObject, undoHistory, savedScenes>>
  /\ CompositionOnly

\* saveCameraView(name), for a name that is given or entered.
saveCameraView(name) ==
  /\ IF currentSceneName = ""
     THEN UNCHANGED <<savedScenes, activeCameraView, cameraViewObjects>>
     ELSE \E c \in {captureSceneState(
                      selectableObjects,
                      [cameraViewObjects EXCEPT ![currentCameraViews] = Put(@, name, camera)],
                      currentCameraViews, name)} :
            /\ activeCameraView' = name
            /\ savedScenes' = Saved(currentSceneName, c.state)
            /\ cameraViewObjects' = c.heap
  /\ UNCHANGED <<selectableObjects, selectedObject, undoHistory, currentSceneName,
                 currentCameraViews, camera>>
  /\ CompositionOnly

\* loadCameraView(name)
loadCameraView(name) ==
  /\ IF Has(cameraViewObjects[currentCameraViews], name)
     THEN \E views \in {IF Has(cameraViewObjects[currentCameraViews], activeCameraView)
                        THEN Put(cameraViewObjects[currentCameraViews], activeCameraView, camera)
                        ELSE cameraViewObjects[currentCameraViews]} :
            /\ cameraViewObjects' = [cameraViewObjects EXCEPT ![currentCameraViews] = views]
            /\ activeCameraView' = name
            /\ camera' = Get(views, name)
     ELSE UNCHANGED <<cameraViewObjects, activeCameraView, camera>>
  /\ UNCHANGED <<selectableObjects, selectedObject, undoHistory, savedScenes, currentSceneName,
                 currentCameraViews>>
  /\ CompositionOnly

\* deleteCameraView(name)
deleteCameraView(name) ==
  /\ IF currentSceneName # "" /\ Has(cameraViewObjects[currentCameraViews], name)
     THEN \E remaining \in {Delete(cameraViewObjects[currentCameraViews], name)} :
          \E active \in {IF activeCameraView # name THEN activeCameraView
                         ELSE IF remaining = <<>> THEN "Default" ELSE remaining[1].name} :
          \E views \in {IF activeCameraView = name /\ remaining = <<>>
                        THEN Put(remaining, "Default", camera) ELSE remaining} :
          \E c \in {captureSceneState(
                      selectableObjects,
                      [cameraViewObjects EXCEPT ![currentCameraViews] = views],
                      currentCameraViews, active)} :
            /\ activeCameraView' = active
            /\ savedScenes' = Saved(currentSceneName, c.state)
            /\ cameraViewObjects' = c.heap
     ELSE UNCHANGED <<savedScenes, activeCameraView, cameraViewObjects>>
  /\ UNCHANGED <<selectableObjects, selectedObject, undoHistory, currentSceneName,
                 currentCameraViews, camera>>
  /\ CompositionOnly

\* The fields pushUndoState and undo leave alone, the record of the call
\* apart.
UndoOnly ==
  UNCHANGED <<fields, pc, gen, count, templates, i, cur, spineLocals, walkLocals, netLocals,
              roadLocals, tried, result, history, calls, utilityPoles>>

\* pushUndoState(), called on the mouseDown of the transform controls; done
\* says that the oldest state was discarded.
pushUndoState ==
  /\ \E c \in {captureSceneState(selectableObjects, cameraViewObjects, currentCameraViews,
                                 activeCameraView)} :
       /\ undoHistory' = Pushed(c.state)
       /\ cameraViewObjects' = c.heap
  /\ probe' = [fn |-> "pushUndoState", done |-> Len(undoHistory) >= MAX_UNDO_STEPS]
  /\ UNCHANGED <<selectableObjects, selectedObject, savedScenes, currentSceneName,
                 currentCameraViews, activeCameraView, camera>>
  /\ UndoOnly

\* The transform controls move the selected object.
dragSelected ==
  /\ \E k \in 1..Len(selectableObjects) :
       /\ selectableObjects[k].id = selectedObject
       /\ selectableObjects[k].pos < MaxPos
       /\ selectableObjects' = [selectableObjects EXCEPT ![k].pos = @ + 1]
  /\ UNCHANGED <<selectedObject, undoHistory, savedScenes, currentSceneName,
                 currentCameraViews, activeCameraView, cameraViewObjects, camera>>
  /\ CompositionOnly

\* undo(); done says that a state was popped and applied.
undo ==
  /\ IF Len(undoHistory) = 0
     THEN UNCHANGED <<selectableObjects, undoHistory, currentCameraViews, activeCameraView,
                      camera>>
     ELSE /\ undoHistory' = SubSeq(undoHistory, 1, Len(undoHistory) - 1)
          /\ applySceneState(undoHistory[Len(undoHistory)])
  /\ probe' = [fn |-> "undo", done |-> Len(undoHistory) # 0]
  /\ UNCHANGED <<selectedObject, savedScenes, currentSceneName, cameraViewObjects>>
  /\ UndoOnly

(***************************************************************************)
(* Specifications.                                                         *)
(*   SpecSpine: system 3 and the ground grid, the sequence of init(), with *)
(*   system 3 run again.                                                   *)
(*   SpecChain: one run of a generator that builds linear chains (system   *)
(*   3, system 1, generateRoad) with the ground grid; a template list      *)
(*   loads as a whole or not at all.                                       *)
(*   SpecAll: runs of all four generators one after the other, on short    *)
(*   counts; every template may fail to load on its own.                   *)
(***************************************************************************)
\* The outcomes of loading the templates of a list of types: any of them may
\* fail to load.
Loads(types) == SUBSET SeqToSet(types)

\* The outcomes in which the loads all succeed or all fail.
LoadsAllOrNone(types) == {{}, SeqToSet(types)}

NextSpine ==
  \/ \E n \in 0..MaxGrid : generateGroundGrid(n)
  \/ runs < MaxRuns /\ S3Start
  \/ \E loaded \in Loads(NetTypes) : S3Load(loaded)
  \/ S3SpineStep
  \/ S3BranchStep
  \/ S3Finish

SpecSpine == Init /\ [][NextSpine]_vars

NextChain ==
  \/ \E n \in 0..MaxGrid : generateGroundGrid(n)
  \/ runs < MaxChainRuns /\ S3Start
  \/ \E loaded \in LoadsAllOrNone(NetTypes) : S3Load(loaded)
  \/ S3SpineStep
  \/ S3BranchStep
  \/ S3Finish
  \/ loadRoadTemplates(SeqToSet(RoadTypes))
  \/ runs < MaxChainRuns /\ \E n \in 0..MaxCount : GRStart(n)
  \/ GRTry
  \/ GRFinish
  \/ runs < MaxChainRuns /\ \E n \in 0..MaxWalk : S1Start(n)
  \/ \E loaded \in LoadsAllOrNone(RoadTypes) : S1Load(loaded)
  \/ S1Try
  \/ S1Finish

SpecChain == Init /\ [][NextChain]_vars

NextAll ==
  \/ \E loaded \in Loads(RoadTypes) \ {{}} : loadRoadTemplates(loaded)
  \/ runs < MaxRuns /\ S3Start
  \/ \E loaded \in Loads(NetTypes) : S3Load(loaded)
  \/ S3SpineStep
  \/ S3BranchStep
  \/ S3Finish
  \/ runs < MaxRuns /\ \E n \in 0..MaxAll : S2Start(n)
  \/ \E loaded \in Loads(NetTypes) : S2Load(loaded)
  \/ S2First
  \/ S2Step
  \/ S2Finish
  \/ runs < MaxRuns /\ \E n \in 0..MaxAll : S1Start(n)
  \/ \E loaded \in Loads(RoadTypes) : S1Load(loaded)
  \/ S1Try
  \/ S1Finish
  \/ runs < MaxRuns /\ \E n \in 0..MaxAll : GRStart(n)
  \/ GRTry
  \/ GRFinish

SpecAll == Init /\ [][NextAll]_vars

\* Two invocations of a generator that awaits its loads (system 3, system 1),
\* the second one possibly made while the first is suspended.
NextReentrant ==
  \/ runs < MaxReentrant /\ (runs > 0 => gen = "system3") /\ S3Start
  \/ \E loaded \in Loads(NetTypes) : S3Load(loaded)
  \/ S3SpineStep
  \/ S3BranchStep
  \/ S3Finish
  \/ runs < MaxReentrant /\ (runs > 0 => gen = "system1") /\ \E n \in 0..MaxAll : S1Start(n)
  \/ \E loaded \in LoadsAllOrNone(RoadTypes) : S1Load(loaded)
  \/ S1Try
  \/ S1Finish
  \/ AwaitYields
  \/ AwaitResumes

SpecReentrant == Init /\ [][NextReentrant]_vars

\* The poles with the ground grid and one short run of generateRoad.
NextPoles ==
  \/ spawnUtilityPoles
  \/ \E n \in 0..MaxGrid : generateGroundGrid(n)
  \/ loadRoadTemplates(SeqToSet(RoadTypes))
  \/ runs < MaxChainRuns /\ \E n \in 0..MaxAll : GRStart(n)
  \/ GRTry
  \/ GRFinish

SpecPoles == Init /\ [][NextPoles]_vars

\* One walk of system 1, long enough for three curves.
NextWalk ==
  \/ runs < MaxChainRuns /\ \E n \in {1, MaxTurns} : S1Start(n)
  \/ \E loaded \in LoadsAllOrNone(RoadTypes) : S1Load(loaded)
  \/ S1Try
  \/ S1Finish

SpecWalk == Init /\ [][NextWalk]_vars

NextSample == CallSampleRoadCells

\* The ground functions called in any order around one short run of
\* generateRoad.
NextGrid ==
  \/ \E n \in {0, 2} : generateGroundGrid(n)
  \/ \E key \in ProbeCells : CallSpawnGrassTile(key)
  \/ \E key \in ProbeCells : CallRemoveTileAt(key)
  \/ loadRoadTemplates(SeqToSet(RoadTypes))
  \/ runs < MaxChainRuns /\ \E n \in 0..MaxAll : GRStart(n)
  \/ GRTry
  \/ GRFinish

SpecGrid == InitGrid /\ [][NextGrid]_vars

\* The building types spawned: one with a layout object numbered 2, one with
\* layout objects numbered 1 and 2, one the layout spells differently, and a
\* type buildingPaths does not hold.
SpawnTypes == {"house1", "office", "nuclearplant", "nuclearPlant"}

\* Buildings are spawned and objects of the spawned types are selected and
\* deleted, in any order.
NextNames ==
  \/ \E k \in 1..Len(selectableObjects) :
       selectableObjects[k].name[1] \in SpawnTypes /\ selectObject(selectableObjects[k].id)
  \/ deleteSelectedObject
  \/ \E type \in SpawnTypes, loads \in BOOLEAN : spawnBuilding(type, loads)

SpecNames == InitScene /\ [][NextNames]_vars

\* The names scenes are saved under.
SceneNames == {"A", "B"}

\* The names camera views are saved under.
ViewNames == {"Default", "View 2"}

\* Scenes and camera views are saved, loaded and deleted while the camera
\* moves.
NextViews ==
  \/ MoveCamera
  \/ \E name \in SceneNames : saveScene(name)
  \/ \E name \in SceneNames : loadScene(name)
  \/ loadDefaultScene
  \/ \E name \in ViewNames : saveCameraView(name)
  \/ \E name \in ViewNames : loadCameraView(name)
  \/ \E name \in ViewNames : deleteCameraView(name)

SpecViews == InitScene /\ [][NextViews]_vars

\* The road types whose loads succeed or fail in runs that get stuck: a
\* straight and the curve that closes a loop after four pieces.
StuckTypes == <<"road_long", "road_curve_tight">>

\* One run of generateRoad, long enough to close a loop and fail five times
\* after it.
NextStuck ==
  \/ \E loaded \in Loads(StuckTypes) : loadRoadTemplates(loaded)
  \/ runs < MaxChainRuns /\ \E n \in {1, MaxStuck} : GRStart(n)
  \/ GRTry
  \/ GRFinish

SpecStuck == Init /\ [][NextStuck]_vars

\* Undo states are pushed and undone while the first object of the layout is
\* selected and moved.
NextUndo ==
  \/ selectObject(1)
  \/ dragSelected
  \/ pushUndoState
  \/ undo

SpecUndo == InitScene /\ [][NextUndo]_vars

NextKey ==
  \/ CallCellKey
  \/ CallGetGridKey

SpecKey == InitKey /\ [][NextKey]_vars

NextLookup ==
  \/ CallFindSocketOut
  \/ CallFindSocket

SpecLookup == InitLookup /\ [][NextLookup]_vars

SpecSample == InitSample /\ [][NextSample]_vars

\* Runs of system 2.  Its code after the loads is synchronous: once a run
\* stands in the loop the next iteration, or the exit, is taken.
NextNet ==
  \/ runs < MaxRuns /\ \E n \in 0..MaxNet : S2Start(n)
  \/ \E loaded \in Loads(NetTypes) : S2Load(loaded)
  \/ S2First
  \/ S2Step
  \/ S2Finish

SpecNet == Init /\ [][NextNet]_vars /\ WF_vars(S2First) /\ WF_vars(S2Step) /\ WF_vars(S2Finish)

(***************************************************************************)
(* Properties.                                                             *)
(***************************************************************************)
PieceIds == {roadPieces[k].id : k \in 1..Len(roadPieces)}

TileIds == {groundTiles[k].id : k \in 1..Len(groundTiles)}

TileCoords == {<<groundTiles[k].gx, groundTiles[k].gz>> : k \in 1..Len(groundTiles)}

\* The number of last pieces whose cells a collision-checking generator
\* tolerates: 2 in trySpawnRoadPiece, 3 in system 1.
SeamWindow == IF gen = "system1" THEN 3 ELSE 2

\* The fine cells a committed piece was sampled to.
PieceCells(piece) == SeqToSet(sampleRoadCells(piece))

C2_TileRoadExclusive ==
  (pc = "idle" /\ lastGrid >= 0) =>
    \A k \in 1..Len(roadPieces) :
      \A c \in sampleRoadWorldGridCells(roadPieces[k]) :
        c \notin TileCoords /\ c \notin DOMAIN worldGrid

\* C3: every start of system 3 sets the PRNG state to SEED, and every completed
\* run of system 3 commits the placements and queues the number of branches
\* of the first completed run with the same templates loaded.
C3_Determinism ==
  [][/\ (pc = "idle" /\ pc' = "s3_load") => seedState' = <<0, SEED>>
     /\ (pc = "s3_branch" /\ pc' = "idle") =>
          firstRun'[templates] = [placements |-> Placements(roadPieces),
                                  branches |-> Len(branches)]]_vars

\* A second run of system 3 has completed with the templates of the first,
\* both loaded: 30 pieces, two branches.
C3_Witness ==
  /\ runs = 2
  /\ pc = "idle"
  /\ DOMAIN firstRun = {SeqToSet(NetTypes)}
  /\ Len(roadPieces) = 30
  /\ firstRun[SeqToSet(NetTypes)].branches = 2

\* The out socket a generator resolves on a committed piece.
ResolvedOut(piece) ==
  SocketWorld(piece, IF gen = "system3" THEN findSocket(piece.type, "socket_out")
                     ELSE findSocketOut(piece.type))

\* The height a piece had when it was placed.
PlacedY(piece) == IF gen = "generateRoad" THEN piece.y - Y_OFFSET ELSE piece.y

\* C4: in the chains of system 3 (the spine, each branch), of system 1 and of
\* generateRoad, a piece committed right after another piece of its chain was
\* placed at the world position of the out socket of that piece.
C4_SocketContinuity ==
  gen \in {"system3", "system1", "generateRoad"} =>
    \A k \in 1..(Len(roadPieces) - 1) :
      roadPieces[k].chain = roadPieces[k + 1].chain =>
        /\ roadPieces[k + 1].x = ResolvedOut(roadPieces[k]).x
        /\ PlacedY(roadPieces[k + 1]) = ResolvedOut(roadPieces[k]).y
        /\ roadPieces[k + 1].z = ResolvedOut(roadPieces[k]).z

\* generateRoad has committed a piece after a curve.
C4_Witness ==
  /\ gen = "generateRoad"
  /\ Len(roadPieces) >= 3
  /\ ROAD_TYPES[roadPieces[2].type] = "curve"

\* No ground tile is held twice: the tiles of groundTiles have distinct cells
\* and are the tiles of the scene.
NoDuplicateTiles ==
  /\ Cardinality(TileCoords) = Len(groundTiles)
  /\ Cardinality(TileIds) = Len(groundTiles)
  /\ scene \ PieceIds = TileIds

\* C5: a call of generateGroundGrid(N) right after a call of
\* generateGroundGrid(N) leaves the tile coordinates, the length of groundTiles
\* and the keys of worldGrid as they were, and holds no tile twice.
C5_IdempotentFill ==
  [][(lastGrid >= 0 /\ lastGrid' = lastGrid /\ again') =>
       /\ TileCoords' = TileCoords
       /\ Len(groundTiles') = Len(groundTiles)
       /\ DOMAIN worldGrid' = DOMAIN worldGrid
       /\ NoDuplicateTiles']_vars

\* generateGroundGrid was called twice in a row on a grid with tiles, with road
\* pieces in the scene.
C5_Witness ==
  /\ again
  /\ lastGrid >= 2
  /\ Len(groundTiles) >= 4
  /\ roadPieces # <<>>

SampleCoarseCells(piece) ==
  Let(findSocketOut(piece.type), LAMBDA k :
    IF k = 0 THEN {}
    ELSE Let(SocketWorld(piece, k), LAMBDA e :
           Let(Max(1, CeilSqrt(Dist2(piece, e))), LAMBDA steps :
             {getGridKey(Along(piece.x, e.x, j, steps),
                         Along(piece.z, e.z, j, steps), steps) : j \in 0..steps})))

\* C7: when trySpawnRoadPiece returns a piece, the piece is the last element
\* of roadPieces, every fine cell sampled on it is in occupiedCells, and no
\* coarse cell that holds one of the sample points keeps a grass entry in
\* worldGrid or a tile in groundTiles.
C7_AcceptedPlacement ==
  [][(result' = "piece" /\ pc = "gr_loop") =>
       /\ Len(roadPieces') = Len(roadPieces) + 1
       /\ PieceCells(roadPieces'[Len(roadPieces')]) \subseteq occupiedCells'
       /\ \A c \in SampleCoarseCells(roadPieces'[Len(roadPieces')]) :
            /\ ~(c \in DOMAIN worldGrid' /\ worldGrid'[c].type = "grass")
            /\ c \notin TileCoords']_vars

\* C8: from the start of a generator run to its end occupiedCells only grows.
C8_OccupiedMonotone == [][pc # "idle" => occupiedCells \subseteq occupiedCells']_vars

\* A run has occupied cells and gone on to reject a candidate.
C8_Witness ==
  /\ pc # "idle"
  /\ occupiedCells # {}
  /\ result = "null"

\* A generator has started and has not placed a piece yet.
BeforeFirstPlacement ==
  \/ pc \in {"s3_load", "s1_load", "s2_load", "s2_first"}
  \/ pc \in {"s3_spine", "s1_loop", "gr_loop"} /\ roadPieces = <<>> /\ result = "none"

\* C9: when a generator has started and has not placed a piece yet, roadPieces
\* is empty, no road piece is in the scene and occupiedCells is empty.
C9_RestartReplaces ==
  BeforeFirstPlacement =>
    /\ roadPieces = <<>>
    /\ scene \subseteq TileIds
    /\ occupiedCells = {}

\* The generators that take the number of pieces to place.
Counted == {"system1", "system2", "generateRoad"}

\* C10: a run with requested count n never holds more than n committed pieces,
\* ends with n pieces or with fewer, and places nothing after an iteration
\* in which no candidate fitted.
C10_RunOutcome ==
  [][(pc # "idle" /\ gen \in Counted) =>
       /\ Len(roadPieces') <= count
       /\ (consecutiveFailures > 0 \/ pc = "s1_end") => roadPieces' = roadPieces]_vars

\* The piece types the running generator has a template of.
Usable == IF gen = "generateRoad" THEN roadTemplates ELSE templates

\* C11: no generator run throws, and a run that was asked for pieces ends
\* without a committed piece only when no piece type is loaded.
C11_DegradeNotAbort ==
  [][/\ result' # "threw"
     /\ (pc # "idle" /\ pc' = "idle" /\ roadPieces = <<>>
           /\ (gen = "system3" \/ count > 0)) => Usable = {}]_vars

\* The fine cells the pieces of roadPieces were sampled to by system 1.
WalkCells == UNION {SeqToSet(sampleCenterline1(roadPieces[k])) : k \in 1..Len(roadPieces)}

C13_FrontierTerminates ==
  /\ [][(pc = "s2_loop" /\ pc' = "s2_loop") =>
          /\ placed < count /\ Len(openSockets) > 0 /\ attempts < 3 * count
          /\ attempts' = attempts + 1]_vars
  /\ [](pc = "s2_loop" => attempts <= 3 * count)
  /\ (pc = "s2_loop" ~> pc = "idle")

\* The loop has run up to the ceiling of attempts with a socket still open and
\* pieces still to place, the last iteration skipped for a missing template.
C13_Witness ==
  /\ pc = "s2_loop"
  /\ count >= 2
  /\ attempts = 3 * count
  /\ placed < count
  /\ Len(openSockets) > 0
  /\ result = "skip"

\* C14: after generateGroundGrid(n), groundTiles holds n * n tiles on distinct
\* cells, the cells of worldGrid; for n = 4 they are the cells with x and z
\* in -2..1.
C14_FillCoverage ==
  lastGrid >= 0 =>
    /\ Len(groundTiles) = lastGrid * lastGrid
    /\ Cardinality(TileCoords) = Len(groundTiles)
    /\ DOMAIN worldGrid = TileCoords
    /\ lastGrid = 4 => TileCoords = (-2..1) \X (-2..1)

\* Math.ceil of the length of the probed segment.
CeilLength ==
  Let(Dist2(probe.start, probe.end), LAMBDA d :
    CHOOSE k \in 0..(d + 1) : k * k >= d /\ \A m \in 0..(k - 1) : m * m < d)

\* The call returned n + 1 sample points from start to end at equal distances
\* (coordinates times q = n), each with the fine cell round(coord / 2), halves
\* rounded up.
SamplesAre(n) ==
  /\ Len(probe.points) = n + 1
  /\ Len(probe.cells) = n + 1
  /\ n >= 1
  /\ probe.points[1] = [x |-> probe.start.x * n, z |-> probe.start.z * n, q |-> n]
  /\ probe.points[n + 1] = [x |-> probe.end.x * n, z |-> probe.end.z * n, q |-> n]
  /\ \A j \in 1..n :
       /\ probe.points[j + 1].x - probe.points[j].x = probe.end.x - probe.start.x
       /\ probe.points[j + 1].z - probe.points[j].z = probe.end.z - probe.start.z
  /\ \A j \in 1..(n + 1) :
       /\ (2 * probe.cells[j][1] - 1) * n <= probe.points[j].x
       /\ probe.points[j].x < (2 * probe.cells[j][1] + 1) * n
       /\ (2 * probe.cells[j][2] - 1) * n <= probe.points[j].z
       /\ probe.points[j].z < (2 * probe.cells[j][2] + 1) * n

\* The segment of length 5 from the origin along +z gives the cells (0,0),
\* (0,1), (0,1), (0,2), (0,2), (0,3).
SampleOfFive ==
  (probe.start = Point(0, 0) /\ probe.end = Point(0, 5)) =>
    probe.cells = << <<0, 0>>, <<0, 1>>, <<0, 1>>, <<0, 2>>, <<0, 2>>, <<0, 3>> >>

\* C15 as stated: on a segment of length L sampleRoadCells takes ceil(L) + 1
\* evenly spaced sample points, both ends included, for every L >= 0, each
\* mapped to the cell round(coord / 2).
C15_Sampling ==
  (probe.fn = "sampleRoadCells" /\ probe.returned) =>
    (IF CeilLength = 0 THEN Len(probe.points) = 1 /\ Len(probe.cells) = 1
     ELSE SamplesAre(CeilLength)) /\ SampleOfFive

\* C15, amended: sampleRoadCells takes max(1, ceil(L)) + 1 evenly spaced sample
\* points, both ends included (two points for L = 0), each mapped to the cell
\* round(coord / 2) with halves rounded up.
C15_SamplingAmended ==
  (probe.fn = "sampleRoadCells" /\ probe.returned) =>
    SamplesAre(Max(1, CeilLength)) /\ SampleOfFive

\* sampleRoadCells has returned the two samples of a segment of length 0.
C15_Witness ==
  /\ probe.fn = "sampleRoadCells"
  /\ probe.returned
  /\ probe.start = probe.end
  /\ Len(probe.cells) = 2

\* The directions of the curves of roadPieces in commit order (1, or -1 for a
\* mirrored curve).
CurveDirs ==
  Let(SelectSeq(roadPieces, LAMBDA piece : ROAD_TYPES[piece.type] = "curve"), LAMBDA curves :
    [k \in 1..Len(curves) |-> IF curves[k].mirror THEN -1 ELSE 1])

\* C16: in system 1 sameDirCount never exceeds MAX_SAME_DIR_CURVES, and no
\* three curves committed one after the other (straights between them or not)
\* have the same direction.
C16_CurveCap ==
  gen = "system1" =>
    /\ sameDirCount <= MAX_SAME_DIR_CURVES
    /\ \A k \in 1..(Len(CurveDirs) - 2) :
         ~(CurveDirs[k] = CurveDirs[k + 1] /\ CurveDirs[k + 1] = CurveDirs[k + 2])

\* System 1 has committed two curves of one direction and then a curve of the
\* other direction.
C16_Witness ==
  /\ gen = "system1"
  /\ Len(CurveDirs) = 3
  /\ CurveDirs[1] = CurveDirs[2]
  /\ CurveDirs[2] # CurveDirs[3]

\* The poles and the cables of utilityPoles, in the order they were pushed.
PolesPlaced == SelectSeq(utilityPoles, LAMBDA o : o.kind = "pole")

CablesPlaced == SelectSeq(utilityPoles, LAMBDA o : o.kind = "cable")

\* C17: after spawnUtilityPoles there are 4 poles, 20 m apart from z = 0 on,
\* and between every two consecutive poles one group of cables, each cable
\* at cableHeight at both ends and at cableHeight - sagAmount at its middle;
\* the call leaves occupiedCells and worldGrid (and the tiles and road pieces)
\* as they were.
C17_PolesAndCables ==
  /\ [](utilityPoles # <<>> =>
          /\ Len(PolesPlaced) = 4
          /\ \A k \in 1..4 : PolesPlaced[k].z = -(200 * (k - 1)) /\ PolesPlaced[k].x = 35
          /\ Len(CablesPlaced) = 3 * Len(cableOffsets)
          /\ \A g \in 1..3 : \A c \in 1..Len(cableOffsets) :
               LET pts == CablesPlaced[((g - 1) * Len(cableOffsets)) + c].points
               IN  /\ Len(pts) = 25
                   /\ pts[1].z = PolesPlaced[g].z * 24
                   /\ pts[25].z = PolesPlaced[g + 1].z * 24
                   /\ pts[1].y = 76 * 576
                   /\ pts[25].y = 76 * 576
                   /\ pts[13].y = (76 - 12) * 576
                   /\ \A n \in 1..25 : pts[n].y >= pts[13].y)
  /\ [][utilityPoles' # utilityPoles =>
          /\ occupiedCells' = occupiedCells
          /\ worldGrid' = worldGrid
          /\ groundTiles' = groundTiles
          /\ roadPieces' = roadPieces]_vars

\* spawnUtilityPoles was called with tiles in worldGrid and cells in
\* occupiedCells.
C17_Witness ==
  /\ utilityPoles # <<>>
  /\ occupiedCells # {}
  /\ DOMAIN worldGrid # {}

\* The indices of the probed names that match the lookup: for findSocketOut a
\* name with socket_out, or with socket and without socket_in; for findSocket
\* the names equal to socketName, or when there is none the names that
\* contain it (case-insensitively).
Matching ==
  LET low == [k \in 1..Len(probe.names) |-> toLowerCase(probe.names[k])]
      exact == {k \in 1..Len(low) : low[k] = probe.socketName}
  IN  IF probe.fn = "findSocketOut"
      THEN {k \in 1..Len(low) :
              "socket_out" \in NameParts[low[k]]
                \/ ("socket" \in NameParts[low[k]] /\ "socket_in" \notin NameParts[low[k]])}
      ELSE IF exact # {} THEN exact
      ELSE {k \in 1..Len(low) : probe.socketName \in NameParts[low[k]]}

\* C18: a socket lookup returns the first matching node in traversal order,
\* and none when no name matches.
C18_FirstMatch ==
  (probe.fn \in {"findSocketOut", "findSocket"} /\ probe.returned) =>
    IF Matching = {} THEN probe.result = 0
    ELSE probe.result \in Matching /\ \A k \in Matching : probe.result <= k

\* c is round(v / size) for the coordinate v (in units of 1 / KeyScale metres):
\* v / size lies in [c - 1/2, c + 1/2).
IsRounded(c, v, size) ==
  /\ (2 * c - 1) * size * KeyScale <= 2 * v
  /\ 2 * v < (2 * c + 1) * size * KeyScale

\* The keys of the probe are the rounded quotients of its coordinates.
KeysAreRounded ==
  /\ IsRounded(probe.key[1], probe.x, SizeOf(probe.fn))
  /\ IsRounded(probe.key[2], probe.z, SizeOf(probe.fn))
  /\ IsRounded(probe.moved[1], probe.x + probe.d, SizeOf(probe.fn))
  /\ IsRounded(probe.moved[2], probe.z - probe.d, SizeOf(probe.fn))

\* v is the centre of a cell.
IsCentre(v, size) == v % (size * KeyScale) = 0

Apart(a, b) == IF a < b THEN b - a ELSE a - b

\* C19 as stated: the key is round(x / size), round(z / size), and a position
\* moved by less than half a cell keeps its key.
C19_KeyStable ==
  (probe.fn \in {"cellKey", "getGridKey"} /\ probe.returned) =>
    /\ KeysAreRounded
    /\ probe.moved = probe.key

\* C19, amended: the key is round(x / size), round(z / size); a position moved
\* by less than half a cell gets the same or a neighbouring cell coordinate,
\* and the same one when the coordinate is the centre of its cell.
C19_KeyStableAmended ==
  (probe.fn \in {"cellKey", "getGridKey"} /\ probe.returned) =>
    /\ KeysAreRounded
    /\ Apart(probe.moved[1], probe.key[1]) <= 1
    /\ Apart(probe.moved[2], probe.key[2]) <= 1
    /\ IsCentre(probe.x, SizeOf(probe.fn)) => probe.moved[1] = probe.key[1]
    /\ IsCentre(probe.z, SizeOf(probe.fn)) => probe.moved[2] = probe.key[2]

\* cellKey has returned for the centre of a cell with a negative coordinate and
\* for the position moved off it.
C19_Witness ==
  /\ probe.fn = "cellKey"
  /\ probe.returned
  /\ probe.x = -(GRID_CELL_SIZE * KeyScale)
  /\ probe.d # 0
  /\ probe.key[1] = -1

\* The meshes of the grass entries of a worldGrid.
GrassMeshes(grid) == {grid[c].mesh : c \in {d \in DOMAIN grid : grid[d].type = "grass"}}

\* worldGrid and groundTiles agree: every entry has a mesh of its own, the
\* tiles of groundTiles are these meshes, none twice, each at the cell of its
\* entry and in the scene.
GridConsistent ==
  /\ Cardinality(GrassMeshes(worldGrid)) = Cardinality(DOMAIN worldGrid)
  /\ TileIds = GrassMeshes(worldGrid)
  /\ Cardinality(TileIds) = Len(groundTiles)
  /\ \A k \in 1..Len(groundTiles) :
       /\ <<groundTiles[k].gx, groundTiles[k].gz>> \in DOMAIN worldGrid
       /\ worldGrid[<<groundTiles[k].gx, groundTiles[k].gz>>].mesh = groundTiles[k].id
  /\ TileIds \subseteq scene

\* The ground state is left as it was.
GroundUnchanged ==
  /\ worldGrid' = worldGrid
  /\ groundTiles' = groundTiles
  /\ scene' = scene

\* C20: worldGrid and groundTiles always agree; spawnGrassTile on a cell with
\* an entry returns null and changes nothing; removeTileAt on a cell with an
\* entry returns true and removes the entry, its tile from groundTiles and
\* its mesh from the scene, and on a cell without one returns false and
\* changes nothing.
C20_GridBookkeeping ==
  /\ []GridConsistent
  /\ [][probe'.n # probe.n =>
          LET key == probe'.key
              had == key \in DOMAIN worldGrid
          IN  /\ (probe'.fn = "spawnGrassTile" /\ had) =>
                   probe'.result = "null" /\ GroundUnchanged
              /\ (probe'.fn = "spawnGrassTile" /\ ~had) =>
                   /\ probe'.result = "tile"
                   /\ DOMAIN worldGrid' = DOMAIN worldGrid \cup {key}
                   /\ Len(groundTiles') = Len(groundTiles) + 1
              /\ (probe'.fn = "removeTileAt" /\ had) =>
                   /\ probe'.result = "true"
                   /\ DOMAIN worldGrid' = DOMAIN worldGrid \ {key}
                   /\ TileIds' = TileIds \ {worldGrid[key].mesh}
                   /\ Len(groundTiles') = Len(groundTiles) - 1
                   /\ worldGrid[key].mesh \notin scene'
              /\ (probe'.fn = "removeTileAt" /\ ~had) =>
                   probe'.result = "false" /\ GroundUnchanged]_vars

\* removeTileAt has returned true with a road piece placed and tiles left.
C20_Witness ==
  /\ probe.fn = "removeTileAt"
  /\ probe.result = "true"
  /\ groundTiles # <<>>
  /\ roadPieces # <<>>

\* A step of the network loop of system 2: one attempt.
NetAttempt == pc = "s2_loop" /\ pc' = "s2_loop" /\ attempts' # attempts

\* What an attempt appends to the queue: the sockets of the piece it
\* committed, or nothing.
Appended ==
  IF Len(roadPieces') > Len(roadPieces)
  THEN SocketEntries(roadPieces'[Len(roadPieces')])
  ELSE <<>>

\* C21: every attempt of system 2 removes one socket from the queue, whether
\* it commits a piece, collides or finds no template for the chosen type, and
\* appends the sockets of the committed piece or nothing.
C21_QueueDiscipline ==
  [][NetAttempt =>
       \E socketIdx \in 1..Len(openSockets) :
         openSockets' = Splice(openSockets, socketIdx) \o Appended]_vars

\* An attempt that instantiated a piece removes one socket and appends the
\* sockets of the committed piece or nothing; an attempt that found no
\* template leaves the queue as it was.
InstantiatedAttemptsConsume ==
  [][NetAttempt =>
       IF result' = "skip"
       THEN openSockets' = openSockets /\ roadPieces' = roadPieces
       ELSE \E socketIdx \in 1..Len(openSockets) :
              openSockets' = Splice(openSockets, socketIdx) \o Appended]_vars

\* The candidate system 2 builds for a queue entry and a piece type.
NetCandidate(socketIdx, pieceType) ==
  Piece(FreshId(scene, roadPieces, groundTiles), pieceType,
        openSockets[socketIdx].t.x, openSockets[socketIdx].t.y,
        openSockets[socketIdx].t.z, openSockets[socketIdx].t.h, 1, FALSE, 0, calls.running)

\* The candidate for an open socket of the committed piece k claims, of the
\* cells claimed already, only cells of piece k.
TouchesOnlyParent(socketIdx, pieceType, k) ==
  /\ openSockets[socketIdx] \in SeqToSet(SocketEntries(roadPieces[k]))
  /\ (SeqToSet(sampleCenterline2(NetCandidate(socketIdx, pieceType))) \cap occupiedCells)
       \subseteq SeqToSet(sampleCenterline2(roadPieces[k]))

\* C22: in system 2 a candidate at an open socket of a committed piece that
\* shares claimed cells with that piece only passes the collision check, and
\* a run with count >= 2 and both templates loaded ends with a second piece.
C22_SeamTouch ==
  /\ [](pc = "s2_loop" =>
          \A socketIdx \in 1..Len(openSockets), pieceType \in templates \cap SeqToSet(NetTypes),
             k \in 1..Len(roadPieces) :
            TouchesOnlyParent(socketIdx, pieceType, k) =>
              ~checkCollision2(sampleCenterline2(NetCandidate(socketIdx, pieceType))))
  /\ [][(pc = "s2_loop" /\ pc' = "idle" /\ count >= 2 /\ templates = SeqToSet(NetTypes)) =>
          Len(roadPieces) >= 2]_vars

\* System 2 never holds more than its first piece: the origin of every
\* candidate lies in the cell of the socket it is placed at, which the piece
\* owning that socket has claimed.
NetNeverGrows == gen = "system2" => Len(roadPieces) <= 1

\* The number of pieces committed after the last curve of roadPieces.
StraightsAfterLastCurve ==
  Len(roadPieces) -
    LastMatch(roadPieces, LAMBDA piece : ROAD_TYPES[piece.type] = "curve")

\* C23: in system 1 straightsSinceCurve counts the straights committed since
\* the last committed curve; while it is below MIN_STRAIGHTS_AFTER_CURVE the
\* filtered candidates hold no curve; and no two pieces committed one after
\* the other are both curves.
C23_StraightBetweenCurves ==
  (gen = "system1" /\ pc = "s1_loop") =>
    /\ (\E k \in 1..Len(roadPieces) : ROAD_TYPES[roadPieces[k].type] = "curve") =>
         straightsSinceCurve = StraightsAfterLastCurve
    /\ straightsSinceCurve < MIN_STRAIGHTS_AFTER_CURVE =>
         \A c \in candidates : ROAD_TYPES[c.key] # "curve"
    /\ \A k \in 1..(Len(roadPieces) - 1) :
         ~(ROAD_TYPES[roadPieces[k].type] = "curve"
           /\ ROAD_TYPES[roadPieces[k + 1].type] = "curve")

\* System 1 stands before an iteration with a curve committed last, and a
\* curve, a straight and a curve before it.
C23_Witness ==
  /\ gen = "system1"
  /\ pc = "s1_loop"
  /\ i < count
  /\ straightsSinceCurve = 0
  /\ Len(roadPieces) >= 5
  /\ ROAD_TYPES[roadPieces[Len(roadPieces)].type] = "curve"
  /\ ROAD_TYPES[roadPieces[Len(roadPieces) - 1].type] = "straight"
  /\ ROAD_TYPES[roadPieces[Len(roadPieces) - 2].type] = "curve"

\* C24: in a run of system 1 the first three committed pieces are straight
\* and not mirrored; in the first three iterations the candidates are the
\* unmirrored straights; from the fourth iteration on plain and mirrored
\* curves are among the candidates the direction rules allow.
C24_StraightStart ==
  gen = "system1" =>
    /\ \A k \in 1..Min(3, Len(roadPieces)) :
         ROAD_TYPES[roadPieces[k].type] = "straight" /\ ~roadPieces[k].mirror
    /\ (pc = "s1_loop" /\ i < 3) =>
         candidates = {Candidate(k, FALSE) :
                         k \in {t \in SeqToSet(RoadTypes) : ROAD_TYPES[t] = "straight"}}
    /\ (pc = "s1_loop" /\ i = 3) =>
         \E c \in candidates, d \in candidates :
           /\ ROAD_TYPES[c.key] = "curve" /\ ~c.mirror
           /\ ROAD_TYPES[d.key] = "curve" /\ d.mirror

\* A run of system 1 has committed three straights and then a mirrored curve.
C24_Witness ==
  /\ gen = "system1"
  /\ Len(roadPieces) >= 4
  /\ ROAD_TYPES[roadPieces[3].type] = "straight"
  /\ ROAD_TYPES[roadPieces[4].type] = "curve"
  /\ roadPieces[4].mirror

\* seedState after n calls of seededRandom in a run of system 3.
RECURSIVE SeedAfter(_)
SeedAfter(n) == IF n = 0 THEN <<0, SEED>> ELSE NextSeedState(SeedAfter(n - 1))

\* The pieces of the spine, in commit order.
SpinePieces == SelectSeq(roadPieces, LAMBDA piece : piece.chain = 0)

\* C25: in system 3 the pieces at spine positions 0 and SPINE_LENGTH - 1 are
\* Road1 pieces; the iterations at these two positions leave seedState as it
\* is and every other iteration of the spine draws once; a complete spine has
\* made SPINE_LENGTH - 2 draws.
C25_SpineEnds ==
  /\ [](gen = "system3" =>
          /\ Len(SpinePieces) >= 1 => SpinePieces[1].type = "Road1"
          /\ Len(SpinePieces) >= SPINE_LENGTH => SpinePieces[SPINE_LENGTH].type = "Road1"
          /\ (pc = "s3_branch" /\ Len(SpinePieces) = SPINE_LENGTH) =>
               seedState = SeedAfter(SPINE_LENGTH - 2))
  /\ [][pc = "s3_spine" =>
          IF i = 0 \/ i = SPINE_LENGTH - 1
          THEN seedState' = seedState
          ELSE seedState' = NextSeedState(seedState)]_vars

\* A spine is complete, with an intersection in it.
C25_Witness ==
  /\ gen = "system3"
  /\ pc = "s3_branch"
  /\ Len(SpinePieces) = SPINE_LENGTH
  /\ \E k \in 1..SPINE_LENGTH : SpinePieces[k].type = "RoadX"
  /\ seedState = SeedAfter(SPINE_LENGTH - 2)

\* The intersections of the spine, in commit order.
Intersections == SelectSeq(SpinePieces, LAMBDA piece : piece.type = "RoadX")

\* C26: in system 3 every branch piece is committed after every spine piece
\* and none while the spine loop runs; the branches recorded are the left and
\* then the right socket transform of each committed intersection; every
\* branch piece is a Road1; and a run with both templates loaded ends with
\* SPINE_LENGTH spine pieces and BRANCH_LENGTH pieces for every branch.
C26_BranchesFollowSpine ==
  /\ [](gen = "system3" =>
          /\ \A k \in 1..Len(roadPieces), m \in 1..Len(roadPieces) :
               (k < m /\ roadPieces[k].chain > 0) => roadPieces[m].chain > 0
          /\ pc = "s3_spine" => SpinePieces = roadPieces
          /\ \A k \in 1..Len(roadPieces) :
               roadPieces[k].chain > 0 => roadPieces[k].type = "Road1"
          /\ pc \in {"s3_spine", "s3_branch"} =>
               /\ Len(branches) = 2 * Len(Intersections)
               /\ \A n \in 1..Len(Intersections) :
                    /\ branches[2 * n - 1].side = "left"
                    /\ branches[2 * n - 1].t = getSocketTransform3(Intersections[n], "socket_left")
                    /\ branches[2 * n].side = "right"
                    /\ branches[2 * n].t = getSocketTransform3(Intersections[n], "socket_right"))
  /\ [][(pc = "s3_branch" /\ pc' = "idle" /\ templates = SeqToSet(NetTypes)) =>
          /\ Len(SpinePieces) = SPINE_LENGTH
          /\ Len(roadPieces) = SPINE_LENGTH + BRANCH_LENGTH * Len(branches)]_vars

\* The branch loops of a run with both templates loaded are over: the left
\* and the right branch of an intersection are built after the spine.
C26_Witness ==
  /\ gen = "system3"
  /\ pc = "s3_branch"
  /\ bi > Len(branches)
  /\ Len(Intersections) >= 1
  /\ Len(branches) = 2 * Len(Intersections)
  /\ Len(roadPieces) = SPINE_LENGTH + BRANCH_LENGTH * Len(branches)
  /\ roadPieces[Len(roadPieces)].chain = Len(branches)

\* C27: no two objects of selectableObjects have the same name, and the
\* transforms of a captured scene state hold one key for every object.
C27_UniqueNames ==
  /\ \A k \in 1..Len(selectableObjects), m \in 1..Len(selectableObjects) :
       k # m => selectableObjects[k].name # selectableObjects[m].name
  /\ Cardinality(DOMAIN Transforms(selectableObjects)) = Len(selectableObjects)

\* The names are unique as long as no building was spawned.
LayoutNamesUnique ==
  (\A k \in 1..Len(selectableObjects) : selectableObjects[k].spawnedType = "") =>
    Cardinality(DOMAIN Transforms(selectableObjects)) = Len(selectableObjects)

\* The camera views stored under a saved scene, with its active view.
StoredViews(name) ==
  [views |-> cameraViewObjects[savedScenes[name].cameraViews],
   activeCameraView |-> savedScenes[name].activeCameraView]

\* C28: with scenes A and B saved and B the current scene, saving or deleting
\* a camera view and saving scene B leave the camera views and the active
\* view stored under A as they were.
C28_ViewsPerScene ==
  [][(/\ {"A", "B"} \subseteq DOMAIN savedScenes
      /\ currentSceneName = "B"
      /\ \/ \E name \in ViewNames : saveCameraView(name)
         \/ \E name \in ViewNames : deleteCameraView(name)
         \/ saveScene("B"))
       => StoredViews("A")' = StoredViews("A")]_vars

\* The saved scenes whose camera views are objects of their own keep them
\* through every step taken while another scene is the current one.
UnsharedViewsStay ==
  [][\A a \in DOMAIN savedScenes :
       (/\ currentSceneName # a
        /\ currentSceneName' = currentSceneName
        /\ savedScenes[a].cameraViews # currentCameraViews)
         => StoredViews(a)' = StoredViews(a)]_vars

\* C29: in a run of generateRoad, once an iteration has found no fitting
\* piece every later call of trySpawnRoadPiece returns null and leaves the
\* cursor, occupiedCells and roadPieces as they were, the retries choosing
\* among the straights only; the loop runs with fewer than maxFailures
\* failures and fewer than count iterations behind it and ends with
\* maxFailures failures or count iterations; and the committed pieces are as
\* many as the iterations before the first failed one.
C29_FailureIsFinal ==
  /\ [][(pc = "gr_loop" /\ pc' = "gr_loop" /\ consecutiveFailures > 0) =>
          /\ result' = "null"
          /\ cur' = cur
          /\ occupiedCells' = occupiedCells
          /\ roadPieces' = roadPieces
          /\ consecutiveFailures' >= consecutiveFailures
          /\ pieceOptions = {"road_long", "road_short"}]_vars
  /\ [](pc = "gr_loop" =>
          /\ consecutiveFailures <= maxFailures
          /\ i <= count
          /\ Len(roadPieces) = i - consecutiveFailures)
  /\ [][(pc = "gr_loop" /\ pc' = "gr_loop" /\ i' # i) =>
          i < count /\ consecutiveFailures < maxFailures]_vars
  /\ [][(pc = "gr_loop" /\ pc' = "idle") =>
          consecutiveFailures = maxFailures \/ i = count]_vars

\* A run of generateRoad has closed a loop of four pieces and failed five
\* times after it.
C29_Witness ==
  /\ pc = "gr_loop"
  /\ Len(roadPieces) = 4
  /\ consecutiveFailures = maxFailures
  /\ i = count

\* The state captureSceneState() returns in the current state.
CapturedNow ==
  captureSceneState(selectableObjects, cameraViewObjects, currentCameraViews,
                    activeCameraView).state

\* C30: undoHistory never holds more than MAX_UNDO_STEPS states; a push
\* appends the captured state, discarding the oldest state of a full history;
\* an undo on a history that is not empty removes its last state and applies
\* it; an undo on an empty history changes nothing.
C30_UndoStack ==
  /\ [](Len(undoHistory) <= MAX_UNDO_STEPS)
  /\ [][(probe' # probe \/ undoHistory' # undoHistory) =>
          /\ (probe'.fn = "pushUndoState") =>
               /\ undoHistory' =
                    (IF Len(undoHistory) = MAX_UNDO_STEPS THEN Tail(undoHistory)
                     ELSE undoHistory) \o <<CapturedNow>>
               /\ selectableObjects' = selectableObjects
          /\ (probe'.fn = "undo" /\ undoHistory # <<>>) =>
               /\ undoHistory' = SubSeq(undoHistory, 1, Len(undoHistory) - 1)
               /\ selectableObjects' = AppliedObjects(undoHistory[Len(undoHistory)])
               /\ currentCameraViews' = undoHistory[Len(undoHistory)].cameraViews
               /\ activeCameraView' = undoHistory[Len(undoHistory)].activeCameraView
          /\ (probe'.fn = "undo" /\ undoHistory = <<>>) =>
               UNCHANGED composition]_vars

\* A push has discarded the oldest state of a full history, and the object
\* moved since is still to be put back by an undo.
C30_Witness ==
  /\ probe.fn = "pushUndoState"
  /\ probe.done
  /\ Len(undoHistory) = MAX_UNDO_STEPS
  /\ selectableObjects[1].pos = 1
  /\ undoHistory[1].transforms[selectableObjects[1].name] = 0

=============================================================================
